---- MODULE Spec2Model ----
(***************************************************************************)
(* Model of the gal-cli orchestration engine (internal/engine/engine.go):  *)
(* the agentic turn loop of Engine.SendWithInteractive, the tool registry  *)
(* it executes against, Clear, SwitchModel and the context compressor.     *)
(* A second specification, SpecStream, models the scan loops of the two   *)
(* stream adapters (internal/provider/openai.go and anthropic.go).         *)
(***************************************************************************)
EXTENDS Integers, Sequences, FiniteSets, TLC

(* ------------------------------ bounds --------------------------------- *)

\* a turn may be requested only while the transcript has at most MaxMsgs messages
MaxMsgs == 3
\* in a "varied" turn the adapter returns tool calls in at most MaxToolRounds rounds
MaxToolRounds == 1
\* a response body is decoded for at most MaxEvents lines
MaxEvents == 6
\* the transport is configured with at most MaxRetries retries
MaxRetries == 2

(* ------------------------ program constants ---------------------------- *)

\* engine.go:121  const maxRounds = 50
maxRounds == 50

SystemPrompt == "sys"
CompressInstruction == "Summarize the following conversation concisely, preserving key decisions, code changes, file paths, and technical details. Output in the same language as the conversation."
SummaryPrefix == "[Compressed context from earlier conversation]\n"

(* ------------------------------ inputs --------------------------------- *)

UserMsgs == {"hello"}
Texts == {"", "done"}
StreamErrors == {"stream error"}
Summaries == {"", "sum"}
Models == {"openai/gpt", "claude"}
Limits == {0, 5, 24}
Scripts == {"varied", "loop"}

FieldsPw == "{\"fields\":[{\"name\":\"pw\",\"sensitive\":true}]}"
FieldsUser == "{\"fields\":[{\"name\":\"user\"}]}"
FieldsNone == "{\"fields\":[]}"
NoArgs == "{}"
KArgs == "{\"k\":1}"

\* the tool-call batches (name, argument string) the adapter may deliver in a round
Batches ==
  { << <<"A", NoArgs>> >>,
    << <<"A", NoArgs>>, <<"B", NoArgs>> >>,
    << <<"A", NoArgs>>, <<"B", NoArgs>>, <<"A", KArgs>> >>,
    << <<"A", NoArgs>>, <<"B", NoArgs>>, <<"C", NoArgs>> >>,
    << <<"X", NoArgs>>, <<"A", NoArgs>> >>,
    << <<"interactive", FieldsPw>>, <<"C", NoArgs>> >>,
    << <<"interactive", NoArgs>>, <<"A", NoArgs>> >> }

\* the batches of a model that asks for input more than once in a round
InteractiveBatches ==
  { << <<"interactive", FieldsPw>>, <<"interactive", FieldsUser>> >>,
    << <<"interactive", NoArgs>>, <<"interactive", FieldsPw>>, <<"C", NoArgs>> >>,
    << <<"interactive", FieldsNone>>, <<"interactive", FieldsPw>> >>,
    << <<"C", NoArgs>>, <<"interactive", FieldsUser>> >> }

\* a model that asks for a password and then passes what it read in the
\* transcript on to a tool
RelayArgs == "{\"pw\":\"s3\"}"
AskBatch == << <<"interactive", FieldsPw>> >>
RelayBatch == << <<"C", RelayArgs>> >>

\* the batch a looping model keeps returning
LoopBatch == << <<"A", NoArgs>> >>

(* --------------------------- provider types ---------------------------- *)

Msg(role, content, calls, id) ==
  [role |-> role, content |-> content, tool_calls |-> calls, tool_call_id |-> id]

ToolCall(id, name, arguments) ==
  [id |-> id, name |-> name, arguments |-> arguments]

\* the assistant message of a round without tool calls
FinalMessage(fullContent) == Msg("assistant", fullContent, << >>, "")

\* the vendor's ids: distinct within a round and across the rounds of a turn
MkCalls(round, batch) ==
  [i \in 1..Len(batch) |->
     ToolCall("r" \o ToString(round) \o "c" \o ToString(i), batch[i][1], batch[i][2])]

(* ------------------------------ registry ------------------------------- *)

\* the handlers behind the names: A, B read-only, C mutating, interactive built in
InitTools == {"A", "B", "C", "interactive"}
InitReadOnly == {"A", "B"}

\* what a handler may return: (result, error); error "" stands for nil.
\* The tools of a looping turn (scr = "loop") always succeed.
HandlerReturns(scr, name, args) ==
  IF name = "interactive"
    THEN { <<"interactive input collected", "">> }
  ELSE IF scr = "loop"
    THEN { <<name \o args, "">> }
  ELSE { <<name \o args, "">>, <<"", "boom">> }

IsReadOnly(ro, name) == name \in ro

\* Registry.Execute: the (result, error) pairs a call can come back with
Execute(reg, scr, name, args) ==
  IF name \notin reg
    THEN { <<"", "unknown tool: " \o name>> }
    ELSE HandlerReturns(scr, name, args)

(* --------------------------- engine helpers ---------------------------- *)

ToolResultNoPrefix(out) == IF out[2] # "" THEN out[2] ELSE out[1]

\* if err != nil { res = "error: " + err.Error() }
ToolResultText(out) == IF out[2] # "" THEN "error: " \o out[2] ELSE out[1]

\* the round starts without looking at the context
CtxErrNever(c) == FALSE

\* ctx.Err() != nil
CtxErr(c) == c

CapOffByOne(r) == r > maxRounds + 1

\* if round > maxRounds
ExceedsCap(r) == r > maxRounds

NeverEmpty(content) == FALSE

\* if fullContent == ""
IsEmptyResponse(content) == content = ""

FanInFirst(n, k) == n >= 1

\* for range toolCalls { tr := <-ch ... }: the loop ends after k receives
\* the fan-in loop receives once more than there are calls
FanInOneMore(n, k) == n = k + 1

FanInDone(n, k) == n = k

RollbackKeepUser(msgs, snap) == SubSeq(msgs, 1, snap + 1)

\* rollback(): e.Messages = e.Messages[:snapshot]
Rollback(msgs, snap) == SubSeq(msgs, 1, snap)

RECURSIVE cleanStripsText(_)
cleanStripsText(msgs) ==
  IF Len(msgs) = 0 THEN msgs
  ELSE LET last == msgs[Len(msgs)] IN
    IF last.role = "user" \/ last.role = "system"
      THEN msgs
      ELSE cleanStripsText(SubSeq(msgs, 1, Len(msgs) - 1))

RECURSIVE cleanIncompleteToolCalls(_)
cleanIncompleteToolCalls(msgs) ==
  IF Len(msgs) = 0 THEN msgs
  ELSE LET last == msgs[Len(msgs)] IN
    IF last.role = "assistant" /\ last.content # "" /\ Len(last.tool_calls) = 0
      THEN msgs
    ELSE IF last.role = "user" \/ last.role = "system"
      THEN msgs
    ELSE IF last.role = "tool" \/ (last.role = "assistant" /\ Len(last.tool_calls) > 0)
      THEN cleanIncompleteToolCalls(SubSeq(msgs, 1, Len(msgs) - 1))
    ELSE msgs

\* the field requests parsed from an interactive call's arguments:
\* [ok |-> args["fields"] is an array, reqs |-> the requests]
ParseFields(args) ==
  IF args = FieldsPw
    THEN [ok |-> TRUE, reqs |-> << [name |-> "pw", sensitive |-> TRUE] >>]
  ELSE IF args = FieldsUser
    THEN [ok |-> TRUE, reqs |-> << [name |-> "user", sensitive |-> FALSE] >>]
  ELSE IF args = FieldsNone
    THEN [ok |-> TRUE, reqs |-> << >>]
    ELSE [ok |-> FALSE, reqs |-> << >>]

\* the loop without its break: the last interactive call whose fields parse
RECURSIVE FirstInteractiveNoBreak(_, _)
FirstInteractiveNoBreak(tcs, i) ==
  IF i > Len(tcs) THEN 0
  ELSE LET later == FirstInteractiveNoBreak(tcs, i + 1) IN
    IF later # 0 THEN later
    ELSE IF tcs[i].name = "interactive" /\ ParseFields(tcs[i].arguments).ok THEN i
    ELSE 0

\* index of the first interactive call whose fields parse, 0 if none (Go: -1)
RECURSIVE FirstInteractive(_, _)
FirstInteractive(tcs, i) ==
  IF i > Len(tcs) THEN 0
  ELSE IF tcs[i].name = "interactive" /\ ParseFields(tcs[i].arguments).ok THEN i
  ELSE FirstInteractive(tcs, i + 1)

InteractiveRequests(tcs) ==
  LET i == FirstInteractive(tcs, 1) IN
    IF i = 0 THEN << >> ELSE ParseFields(tcs[i].arguments).reqs

\* the values the interactive collaborator may return for the requests
\* (a list of <<name, value>> pairs in key order), or nil
NilMap == [nil |-> TRUE, kv |-> << >>]
InteractiveAnswers(reqs) ==
  { [nil |-> FALSE, kv |-> [i \in 1..Len(reqs) |-> <<reqs[i].name, "s3">>]], NilMap }

\* json.Marshal of a map[string]string
RECURSIVE MarshalPairs(_)
MarshalPairs(kv) ==
  IF Len(kv) = 0 THEN ""
  ELSE "\"" \o kv[1][1] \o "\":\"" \o kv[1][2] \o "\""
       \o (IF Len(kv) > 1 THEN "," ELSE "") \o MarshalPairs(Tail(kv))
Marshal(m) == "{" \o MarshalPairs(m.kv) \o "}"

AllReadOnlyFirstOnly(ro, tcs, itIdx) == itIdx = 0 /\ IsReadOnly(ro, tcs[1].name)

\* allReadOnly: no honored interactive call and every call targets a ReadOnly tool
allReadOnly(ro, tcs, itIdx) ==
  itIdx = 0 /\ \A i \in 1..Len(tcs) : IsReadOnly(ro, tcs[i].name)

\* the zero value of toolResult
ZeroResult == [index |-> 0, result |-> ""]

PlaceByArrival(res, tr, n) == [res EXCEPT ![n] = tr]

\* results[tr.index] = tr  (n is the number of results received so far, plus one)
PlaceResult(res, tr, n) == [res EXCEPT ![tr.index + 1] = tr]

\* the tool messages appended for a round, one per call in emission order
ToolMessages(tcs, res) ==
  [i \in 1..Len(tcs) |-> Msg("tool", res[i].result, << >>, tcs[i].id)]

(* ------------------------------ compressor ----------------------------- *)

\* int(float64(n) / 2.5)
Tok(n) == (n * 2) \div 5

RECURSIVE SumCalls(_)
SumCalls(tcs) ==
  IF Len(tcs) = 0 THEN 0
  ELSE Len(tcs[1].name) + Len(tcs[1].arguments) + SumCalls(Tail(tcs))

RECURSIVE TotalChars(_)
TotalChars(msgs) ==
  IF Len(msgs) = 0 THEN 0
  ELSE Len(msgs[1].content) + SumCalls(msgs[1].tool_calls) + TotalChars(Tail(msgs))

estimateTokens(msgs) == Tok(TotalChars(msgs))

NeedsCompressionAtLimit(limit, msgs) ==
  IF limit <= 0 THEN FALSE ELSE estimateTokens(msgs) >= limit

NeedsCompression(limit, msgs) ==
  IF limit <= 0 THEN FALSE ELSE estimateTokens(msgs) > limit

RECURSIVE CallTokens(_)
CallTokens(tcs) ==
  IF Len(tcs) = 0 THEN 0
  ELSE Tok(Len(tcs[1].name) + Len(tcs[1].arguments)) + CallTokens(Tail(tcs))

\* mtokens of the boundary walk
MsgTokens(m) == Tok(Len(m.content)) + CallTokens(m.tool_calls)

TargetTokensWholeLimit(limit) == limit

\* int(float64(e.ContextLimit) * 0.8)
TargetTokens(limit) == (limit * 4) \div 5

RECURSIVE TakeToolsBudgeted(_, _, _)
TakeToolsBudgeted(msgs, st, target) ==
  IF st.cut < Len(msgs) /\ msgs[st.cut + 1].role = "tool"
     /\ st.accum + Tok(Len(msgs[st.cut + 1].content)) <= target
    THEN TakeToolsBudgeted(msgs,
           [cut |-> st.cut + 1, accum |-> st.accum + Tok(Len(msgs[st.cut + 1].content))],
           target)
    ELSE st

\* the inner loop: take every tool message that follows an assistant tool-call message
RECURSIVE TakeTools(_, _, _)
TakeTools(msgs, st, target) ==
  IF st.cut < Len(msgs) /\ msgs[st.cut + 1].role = "tool"
    THEN TakeTools(msgs,
           [cut |-> st.cut + 1, accum |-> st.accum + Tok(Len(msgs[st.cut + 1].content))],
           target)
    ELSE st

\* the boundary walk over msgs = e.Messages[1:]; st.cut is cutIdx
RECURSIVE Walk(_, _, _)
Walk(msgs, st, target) ==
  IF st.cut >= Len(msgs) THEN st
  ELSE LET m == msgs[st.cut + 1]
           t == MsgTokens(m)
       IN IF st.accum + t > target THEN st
          ELSE LET st1 == [cut |-> st.cut + 1, accum |-> st.accum + t]
                   st2 == IF m.role = "assistant" /\ Len(m.tool_calls) > 0
                            THEN TakeTools(msgs, st1, target)
                            ELSE st1
               IN Walk(msgs, st2, target)

\* cutIdx for the transcript all and the limit
CutIdx(all, limit) ==
  Walk(Tail(all), [cut |-> 0, accum |-> 0], TargetTokens(limit)).cut

KeepZoneOffByOne(all, cutIdx) == SubSeq(all, cutIdx + 3, Len(all))

\* keepZone := msgs[cutIdx:] with msgs = e.Messages[1:]
KeepZone(all, cutIdx) == SubSeq(all, cutIdx + 2, Len(all))

RebuildSummaryFirst(all, keep, text) ==
  << Msg("system", SummaryPrefix \o text, << >>, ""), all[1] >> \o keep

\* the rebuilt transcript: system prompt, summary message, keep zone
Rebuild(all, keep, text) ==
  << all[1], Msg("system", SummaryPrefix \o text, << >>, "") >> \o keep

\* "if cutIdx == 0 { return nil }": nothing to compress
EmptyZoneNever(cutIdx) == FALSE

EmptyZone(cutIdx) == cutIdx = 0

\* the transcript after a failed summarization call: e.Messages is assigned
\* only after the error return, so it is what it was
TranscriptTruncatedOnError(all, keep) == << all[1] >> \o keep

TranscriptOnError(all, keep) == all

(* -------------------------------- state -------------------------------- *)

VARIABLES
  Messages,        \* e.Messages, the transcript
  ContextLimit,    \* e.ContextLimit
  CurrentModel,    \* e.Agent.CurrentModel
  tools,           \* Registry.tools: the registered names
  readonly,        \* Registry.readonly: the names registered ReadOnly
  pc,              \* where the engine is: idle, in a turn, or in Compress
  round,           \* round counter of the turn
  snapshot,        \* rollback point of the turn
  cancelled,       \* ctx.Err() != nil
  onInteractive,   \* whether the caller passed an interactive collaborator
  script,          \* how the model behind the adapter behaves in this turn
  toolCalls,       \* the round's accumulated tool calls
  interactiveToolIndex,  \* 1-based, 0 for none
  interactiveResults,    \* the collaborator's values, or nil
  results,         \* results[], one toolResult per call
  next,            \* loop index of the spawn loop / the serial loop (1-based)
  inflight,        \* calls whose Registry.Execute has started and not returned
  ch,              \* the buffered channel of the parallel branch
  received,        \* results received from ch
  keepZone,        \* Compress: the keep zone while the summary is awaited
  pre,             \* history: the transcript when the running operation was requested
  ret,             \* history: the last operation and what it returned
  adapterCalls,    \* history: ChatStream invocations of the turn
  raw,             \* history: what Execute returned for each call of the round
  done,            \* history: the calls of the round whose Execute has returned
  arrival,         \* history: the order in which the parallel results reached ch
  mode,            \* history: the branch the round took: parallel or serial
  summary          \* Compress: the summary text collected from the adapter

\* one ChatStream call of a stream adapter, decoding the response body
VARIABLES
  proto,           \* which adapter runs: "A" (OpenAI) or "B" (Anthropic)
  seen,            \* history: the lines of the response body scanned so far
  tcAcc,           \* Protocol A: the tool calls accumulated per index
  chunkCount,      \* Protocol A: data lines counted
  hasContent,      \* Protocol A: whether a content or tool-call delta was seen
  currentToolID,   \* Protocol B: id of the tool_use block being accumulated
  currentToolName, \* Protocol B: its name
  currentToolArgs, \* Protocol B: its argument fragments so far
  deltas,          \* the StreamDelta values passed to onDelta, in order
  callback,        \* the engine's onDelta closure: fullContent, toolCalls, texts given to onText
  sret,            \* what ChatStream returned: "" while it runs, "nil", or an error
  phase,           \* where ChatStream is: "do", "backoff", "check", "scan", "stalled"
  retries,         \* doWithRetry: the retries parameter
  attempts,        \* history: the client.Do calls of doWithRetry (body sent, outcome)
  reqBody,         \* req.Body: what the next client.Do would send
  resp,            \* the response doWithRetry last obtained
  messages,        \* ChatStream's messages parameter: the transcript to send
  pos,             \* the conversion loop: how many of messages were converted
  system,          \* Protocol B: var system string
  wire,            \* msgs, the wire messages built so far
  handlers,        \* Registry.tools: the handler held under each name
  toolDefs,        \* Registry.toolDefs: the definition held under each name
  registered,      \* the registrations made so far, in order
  called           \* what the last Execute or GetDefs call returned

\* the program around the engine: the terminal UI and the debug log
VARIABLES
  waiting,         \* m.waiting: the UI has sent a turn and not yet handled its end
  compressing,     \* m.compressing: a Compress started by the UI has not returned
  msgsLen,         \* Compress: len(e.Messages) when the running Compress read it
  sensitiveValues, \* e.sensitiveValues, the mask list
  debugFile        \* what the last step wrote to e.debugFile, line by line

turnVars == <<round, snapshot, cancelled, onInteractive, script>>
roundVars == <<toolCalls, interactiveToolIndex, interactiveResults, results, next,
               inflight, ch, received, raw, done, arrival, mode>>
confVars == <<ContextLimit, CurrentModel, tools, readonly>>
streamVars == <<proto, seen, tcAcc, chunkCount, hasContent, currentToolID,
                currentToolName, currentToolArgs, deltas, callback, sret,
                phase, retries, attempts, reqBody, resp>>
transportVars == <<phase, retries, attempts, reqBody, resp>>
requestVars == <<messages, pos, system, wire>>
registryVars == <<handlers, toolDefs, registered, called>>
auxVars == <<waiting, compressing, msgsLen, sensitiveValues, debugFile>>
vars == <<Messages, pc, keepZone, summary, pre, ret, adapterCalls, turnVars, roundVars, confVars, streamVars,
          requestVars, registryVars, auxVars>>

NoRaw == <<"", "">>

\* an *http.Response: status code and what io.ReadAll(resp.Body) would give
Response(status, body) == [status |-> status, body |-> body]

\* "var fullContent string; var toolCalls []provider.ToolCall" and no text
\* forwarded to onText yet
NoCallback == [fullContent |-> "", toolCalls |-> << >>, onText |-> << >>]

\* no ChatStream call is being decoded
NoStream ==
  /\ proto = "A"
  /\ seen = << >>
  /\ tcAcc = {}
  /\ chunkCount = 0
  /\ hasContent = FALSE
  /\ currentToolID = ""
  /\ currentToolName = ""
  /\ currentToolArgs = ""
  /\ deltas = << >>
  /\ callback = NoCallback
  /\ sret = "nil"
  /\ phase = "scan"
  /\ retries = 0
  /\ attempts = << >>
  /\ reqBody = ""
  /\ resp = Response(200, "")

\* New(a, p), an already populated registry, and the configured context limit
\* an engine that has run no turn yet, whatever its transcript
NoTurnYet ==
  /\ ContextLimit \in Limits
  /\ CurrentModel = "openai/gpt"
  /\ tools = InitTools
  /\ readonly = InitReadOnly
  /\ pc = "idle"
  /\ round = 0
  /\ snapshot = 0
  /\ cancelled = FALSE
  /\ onInteractive = FALSE
  /\ script = "varied"
  /\ toolCalls = << >>
  /\ interactiveToolIndex = 0
  /\ interactiveResults = NilMap
  /\ results = << >>
  /\ next = 0
  /\ inflight = {}
  /\ ch = << >>
  /\ received = 0
  /\ keepZone = << >>
  /\ pre = << >>
  /\ ret = [op |-> "new", err |-> "", did |-> ""]
  /\ adapterCalls = 0
  /\ raw = << >>
  /\ done = {}
  /\ arrival = << >>
  /\ mode = "none"
  /\ summary = ""
  /\ waiting = FALSE
  /\ compressing = FALSE
  /\ msgsLen = 0
  /\ sensitiveValues = << >>
  /\ debugFile = << >>

EngineInit ==
  /\ Messages = << Msg("system", SystemPrompt, << >>, "") >>
  /\ NoTurnYet

\* no request is being built
NoRequest ==
  /\ messages = << >>
  /\ pos = 0
  /\ system = ""
  /\ wire = << >>

\* one call of Register or RegisterReadOnly
Registration(name, def, h, class) ==
  [name |-> name, def |-> def, handler |-> h, class |-> class]

\* a provider.ToolDef
ToolDef(name, description) == [name |-> name, description |-> description]

\* the outcome of a registry call: for Execute the handler invoked ("" for
\* none), what it handed back and what Execute returned; for GetDefs the
\* names asked for and the definitions returned
Call(op, name, invoked, handed, out, names, defs) ==
  [op |-> op, name |-> name, invoked |-> invoked, handed |-> handed,
   result |-> out[1], err |-> out[2], names |-> names, defs |-> defs]

NoCall == Call("", "", "", <<"", "">>, <<"", "">>, << >>, << >>)

\* the registry the engine is handed: every name of InitTools registered once
Populated ==
  /\ handlers = [n \in InitTools |-> n]
  /\ toolDefs = [n \in InitTools |-> ToolDef(n, "builtin")]
  /\ registered = << Registration("A", ToolDef("A", "builtin"), "A", "ReadOnly"),
                     Registration("B", ToolDef("B", "builtin"), "B", "ReadOnly"),
                     Registration("C", ToolDef("C", "builtin"), "C", "Mutating"),
                     Registration("interactive", ToolDef("interactive", "builtin"),
                                  "interactive", "Mutating") >>
  /\ called = NoCall

Init == EngineInit /\ NoStream /\ NoRequest /\ Populated

ResetTurn ==
  /\ snapshot' = 0
  /\ cancelled' = FALSE
  /\ onInteractive' = FALSE
  /\ script' = "varied"

ResetRound ==
  /\ toolCalls' = << >>
  /\ interactiveToolIndex' = 0
  /\ interactiveResults' = NilMap
  /\ results' = << >>
  /\ next' = 0
  /\ inflight' = {}
  /\ ch' = << >>
  /\ received' = 0
  /\ raw' = << >>
  /\ done' = {}
  /\ arrival' = << >>
  /\ mode' = "none"

(* ------------------------------ the turn ------------------------------- *)

\* SendWithInteractive up to the loop: clean, snapshot, append the user message
SendWithInteractive(userMsg, handler, scr) ==
  /\ pc = "idle"
  /\ Len(Messages) <= MaxMsgs
  /\ LET cleaned == cleanIncompleteToolCalls(Messages) IN
       /\ snapshot' = Len(cleaned)
       /\ Messages' = Append(cleaned, Msg("user", userMsg, << >>, ""))
  /\ round' = 0
  /\ cancelled' = FALSE
  /\ onInteractive' = handler
  /\ script' = scr
  /\ pre' = Messages
  /\ ret' = [op |-> "send", err |-> "running", did |-> ""]
  /\ adapterCalls' = 0
  /\ pc' = "top"
  /\ ResetRound
  /\ UNCHANGED <<keepZone, summary, confVars, streamVars, requestVars, registryVars>>

\* a terminal failure of the turn: rollback() and return err
Fail(msgs, err) ==
  /\ Messages' = Rollback(msgs, snapshot)
  /\ ret' = [op |-> "send", err |-> err, did |-> ""]
  /\ pc' = "idle"
  /\ ResetRound
  /\ ResetTurn

\* the context of the turn is cancelled by its owner
Cancel ==
  /\ pc \notin {"idle", "summarize"}
  /\ ~cancelled
  /\ cancelled' = TRUE
  /\ UNCHANGED <<Messages, pc, keepZone, summary, pre, ret, adapterCalls, round, snapshot,
                 onInteractive, script, roundVars, confVars, streamVars, requestVars, registryVars>>

\* top of the loop: round++, the round cap, the cancellation check, then ChatStream
RoundTop ==
  /\ pc = "top"
  /\ round' = round + 1
  /\ IF ExceedsCap(round + 1)
       THEN /\ Fail(Messages, "agentic loop exceeded rounds")
            /\ UNCHANGED adapterCalls
     ELSE IF CtxErr(cancelled)
       THEN /\ Fail(Messages, "context canceled")
            /\ UNCHANGED adapterCalls
     ELSE /\ pc' = "stream"
          /\ adapterCalls' = adapterCalls + 1
          /\ UNCHANGED <<Messages, ret, roundVars, snapshot, cancelled, onInteractive,
                         script>>
  /\ UNCHANGED <<keepZone, summary, pre, confVars, streamVars, requestVars, registryVars>>

\* the partition of a round's calls: the parallel branch or the serial branch
Dispatch(tcs, itIdx) ==
  /\ results' = [i \in 1..Len(tcs) |-> ZeroResult]
  /\ raw' = [i \in 1..Len(tcs) |-> NoRaw]
  /\ next' = 1
  /\ IF allReadOnly(readonly, tcs, itIdx) /\ Len(tcs) > 1
       THEN pc' = "spawn" /\ mode' = "parallel"
       ELSE pc' = "serial" /\ mode' = "serial"

\* what the model may answer in this round
RoundBatches ==
  IF script = "loop" THEN {LoopBatch}
  ELSE IF script = "ask" THEN (IF round <= MaxToolRounds THEN InteractiveBatches ELSE {})
  ELSE IF script = "relay"
    THEN (IF round = 1 THEN {AskBatch} ELSE IF round = 2 THEN {RelayBatch} ELSE {})
  ELSE IF round <= MaxToolRounds THEN Batches
  ELSE {}

\* ChatStream returns an error
ChatStreamFails(err) ==
  /\ pc = "stream"
  /\ Fail(Messages, err)
  /\ UNCHANGED <<keepZone, summary, pre, adapterCalls, round, confVars, streamVars, requestVars, registryVars>>

\* ChatStream succeeds with no tool call: the final text, or an empty response
ChatStreamText(content) ==
  /\ pc = "stream"
  /\ LET appended == Append(Messages, FinalMessage(content)) IN
       IF IsEmptyResponse(content)
         THEN Fail(appended, "empty response")
         ELSE /\ Messages' = appended
              /\ ret' = [op |-> "send", err |-> "", did |-> ""]
              /\ pc' = "idle"
              /\ ResetRound
              /\ ResetTurn
  /\ UNCHANGED <<keepZone, summary, pre, adapterCalls, round, confVars, streamVars, requestVars, registryVars>>

\* ChatStream succeeds with tool calls (any text streamed with them is not stored)
ChatStreamCalls(content, batch) ==
  /\ pc = "stream"
  /\ batch \in RoundBatches
  /\ LET tcs == MkCalls(round, batch)
         itIdx == FirstInteractive(tcs, 1)
     IN /\ Messages' = Append(Messages, Msg("assistant", "", tcs, ""))
        /\ toolCalls' = tcs
        /\ interactiveToolIndex' = itIdx
        /\ interactiveResults' = NilMap
        /\ inflight' = {}
        /\ ch' = << >>
        /\ received' = 0
        /\ done' = {}
        /\ arrival' = << >>
        /\ IF Len(InteractiveRequests(tcs)) > 0 /\ onInteractive
             THEN /\ pc' = "ask"
                  /\ mode' = "none"
                  /\ results' = << >>
                  /\ raw' = << >>
                  /\ next' = 0
             ELSE Dispatch(tcs, itIdx)
  /\ UNCHANGED <<keepZone, summary, pre, ret, adapterCalls, turnVars, confVars, streamVars, requestVars, registryVars>>

\* the interactive collaborator returns an error
InteractiveFails ==
  /\ pc = "ask"
  /\ Fail(Messages, "input cancelled")
  /\ UNCHANGED <<keepZone, summary, pre, adapterCalls, round, confVars, streamVars, requestVars, registryVars>>

\* the interactive collaborator returns its values
InteractiveReturns(answer) ==
  /\ pc = "ask"
  /\ answer \in InteractiveAnswers(InteractiveRequests(toolCalls))
  /\ interactiveResults' = answer
  /\ Dispatch(toolCalls, interactiveToolIndex)
  /\ UNCHANGED <<Messages, keepZone, summary, pre, ret, adapterCalls, turnVars, confVars, streamVars, requestVars, registryVars,
                 toolCalls, interactiveToolIndex, inflight, ch, received, done, arrival>>

\* parallel branch: go func(idx, tc) for the next call
Spawn ==
  /\ pc = "spawn"
  /\ inflight' = inflight \cup {next}
  /\ next' = next + 1
  /\ pc' = IF next = Len(toolCalls) THEN "wait" ELSE "spawn"
  /\ UNCHANGED <<Messages, keepZone, summary, pre, ret, adapterCalls, turnVars, confVars, streamVars, requestVars, registryVars,
                 toolCalls, interactiveToolIndex, interactiveResults, results, ch,
                 received, raw, done, arrival, mode>>

\* parallel branch: a goroutine's Execute returns and it sends its toolResult
GoroutineReturns(i) ==
  /\ pc \in {"spawn", "wait"}
  /\ i \in inflight
  /\ \E out \in Execute(tools, script, toolCalls[i].name, toolCalls[i].arguments) :
       /\ ch' = Append(ch, [index |-> i - 1, result |-> ToolResultText(out)])
       /\ raw' = [raw EXCEPT ![i] = out]
  /\ inflight' = inflight \ {i}
  /\ done' = done \cup {i}
  /\ arrival' = Append(arrival, i)
  /\ UNCHANGED <<Messages, pc, keepZone, summary, pre, ret, adapterCalls, turnVars, confVars, streamVars, requestVars, registryVars,
                 toolCalls, interactiveToolIndex, interactiveResults, results, next,
                 received, mode>>

\* parallel branch: tr := <-ch; results[tr.index] = tr
Receive ==
  /\ pc = "wait"
  /\ Len(ch) > 0
  /\ results' = PlaceResult(results, Head(ch), received + 1)
  /\ ch' = Tail(ch)
  /\ received' = received + 1
  /\ pc' = IF FanInDone(received + 1, Len(toolCalls)) THEN "emit" ELSE "wait"
  /\ UNCHANGED <<Messages, keepZone, summary, pre, ret, adapterCalls, turnVars, confVars, streamVars, requestVars, registryVars,
                 toolCalls, interactiveToolIndex, interactiveResults, next, inflight,
                 raw, done, arrival, mode>>

\* serial branch: the next call is answered from the collected values, or Execute starts
SerialStart ==
  /\ pc = "serial"
  /\ IF next = interactiveToolIndex /\ ~interactiveResults.nil
       THEN /\ results' = [results EXCEPT
                             ![next] = [index |-> next - 1,
                                        result |-> Marshal(interactiveResults)]]
            /\ next' = next + 1
            /\ pc' = IF next = Len(toolCalls) THEN "emit" ELSE "serial"
            /\ UNCHANGED inflight
       ELSE /\ inflight' = {next}
            /\ pc' = "exec"
            /\ UNCHANGED <<results, next>>
  /\ UNCHANGED <<Messages, keepZone, summary, pre, ret, adapterCalls, turnVars, confVars, streamVars, requestVars, registryVars,
                 toolCalls, interactiveToolIndex, interactiveResults, ch, received,
                 raw, done, arrival, mode>>

\* serial branch: Execute returns
SerialReturns ==
  /\ pc = "exec"
  /\ \E out \in Execute(tools, script, toolCalls[next].name, toolCalls[next].arguments) :
       /\ results' = [results EXCEPT
                        ![next] = [index |-> next - 1, result |-> ToolResultText(out)]]
       /\ raw' = [raw EXCEPT ![next] = out]
  /\ done' = done \cup {next}
  /\ inflight' = {}
  /\ next' = next + 1
  /\ pc' = IF next = Len(toolCalls) THEN "emit" ELSE "serial"
  /\ UNCHANGED <<Messages, keepZone, summary, pre, ret, adapterCalls, turnVars, confVars, streamVars, requestVars, registryVars,
                 toolCalls, interactiveToolIndex, interactiveResults, ch, received,
                 arrival, mode>>

\* emit results and append the tool messages, then loop
Emit ==
  /\ pc = "emit"
  /\ Messages' = Messages \o ToolMessages(toolCalls, results)
  /\ pc' = "top"
  /\ UNCHANGED <<keepZone, summary, pre, ret, adapterCalls, turnVars, roundVars, confVars, streamVars, requestVars, registryVars>>

(* -------------------------- other operations --------------------------- *)

\* the summary of a compression survives the reset
ClearKeepsSummary ==
  /\ pc = "idle"
  /\ Messages' = IF Len(Messages) >= 2 /\ Messages[2].role = "system"
                   THEN SubSeq(Messages, 1, 2)
                   ELSE << Msg("system", SystemPrompt, << >>, "") >>
  /\ pre' = Messages
  /\ ret' = [op |-> "clear", err |-> "", did |-> ""]
  /\ UNCHANGED <<pc, keepZone, summary, adapterCalls, turnVars, roundVars, confVars, streamVars, requestVars, registryVars>>

Clear ==
  /\ pc = "idle"
  /\ Messages' = << Msg("system", SystemPrompt, << >>, "") >>
  /\ pre' = Messages
  /\ ret' = [op |-> "clear", err |-> "", did |-> ""]
  /\ UNCHANGED <<pc, keepZone, summary, adapterCalls, turnVars, roundVars, confVars, streamVars, requestVars, registryVars>>

SwitchModel(model) ==
  /\ pc = "idle"
  /\ CurrentModel' = model
  /\ pre' = Messages
  /\ ret' = [op |-> "switch", err |-> "", did |-> ""]
  /\ UNCHANGED <<Messages, pc, keepZone, summary, adapterCalls, turnVars, roundVars,
                 ContextLimit, tools, readonly, streamVars, requestVars, registryVars>>

\* Compress up to the summarization call; returns nil at once when there is
\* nothing to do
Compress ==
  /\ pc = "idle"
  /\ pre' = Messages
  /\ IF ~NeedsCompression(ContextLimit, Messages)
       THEN /\ ret' = [op |-> "compress", err |-> "", did |-> "not needed"]
            /\ UNCHANGED <<pc, keepZone>>
     ELSE LET cutIdx == CutIdx(Messages, ContextLimit) IN
       IF EmptyZone(cutIdx)
         THEN /\ ret' = [op |-> "compress", err |-> "", did |-> "empty zone"]
              /\ UNCHANGED <<pc, keepZone>>
         ELSE /\ keepZone' = KeepZone(Messages, cutIdx)
              /\ ret' = [op |-> "compress", err |-> "running", did |-> ""]
              /\ pc' = "summarize"
  /\ summary' = ""
  /\ UNCHANGED <<Messages, adapterCalls, turnVars, roundVars, confVars, streamVars, requestVars, registryVars>>

\* the summarization call fails: the transcript is left as it is
CompressFails(err) ==
  /\ pc = "summarize"
  /\ ret' = [op |-> "compress", err |-> err, did |-> ""]
  /\ Messages' = TranscriptOnError(Messages, keepZone)
  /\ keepZone' = << >>
  /\ pc' = "idle"
  /\ UNCHANGED <<summary, pre, adapterCalls, turnVars, roundVars, confVars, streamVars, requestVars, registryVars>>

\* the summarization call succeeds: rebuild the transcript
CompressReturns(text) ==
  /\ pc = "summarize"
  /\ summary' = text
  /\ Messages' = Rebuild(Messages, keepZone, text)
  /\ ret' = [op |-> "compress", err |-> "", did |-> "compressed"]
  /\ keepZone' = << >>
  /\ pc' = "idle"
  /\ UNCHANGED <<pre, adapterCalls, turnVars, roundVars, confVars, streamVars, requestVars, registryVars>>

Next ==
  \/ \E u \in UserMsgs, h \in BOOLEAN, s \in Scripts : SendWithInteractive(u, h, s) /\ UNCHANGED auxVars
  \/ Cancel /\ UNCHANGED auxVars
  \/ RoundTop /\ UNCHANGED auxVars
  \/ \E e \in StreamErrors : ChatStreamFails(e) /\ UNCHANGED auxVars
  \/ \E t \in Texts : ChatStreamText(t) /\ UNCHANGED auxVars
  \/ \E t \in Texts, b \in Batches \cup {LoopBatch} : ChatStreamCalls(t, b) /\ UNCHANGED auxVars
  \/ InteractiveFails /\ UNCHANGED auxVars
  \/ \E a \in InteractiveAnswers(InteractiveRequests(toolCalls)) : InteractiveReturns(a) /\ UNCHANGED auxVars
  \/ Spawn /\ UNCHANGED auxVars
  \/ \E i \in inflight : GoroutineReturns(i) /\ UNCHANGED auxVars
  \/ Receive /\ UNCHANGED auxVars
  \/ SerialStart /\ UNCHANGED auxVars
  \/ SerialReturns /\ UNCHANGED auxVars
  \/ Emit /\ UNCHANGED auxVars
  \/ Clear /\ UNCHANGED auxVars
  \/ \E m \in Models : SwitchModel(m) /\ UNCHANGED auxVars
  \/ Compress /\ UNCHANGED auxVars
  \/ \E e \in StreamErrors : CompressFails(e) /\ UNCHANGED auxVars
  \/ \E s \in Summaries : CompressReturns(s) /\ UNCHANGED auxVars

Spec == Init /\ [][Next]_vars

\* turns of a model that asks for input more than once in a round
InitInteractive == Init /\ ContextLimit = 0

NextInteractive ==
  \/ \E u \in UserMsgs, h \in BOOLEAN : SendWithInteractive(u, h, "ask") /\ UNCHANGED auxVars
  \/ RoundTop /\ UNCHANGED auxVars
  \/ \E t \in Texts : ChatStreamText(t) /\ UNCHANGED auxVars
  \/ \E b \in InteractiveBatches : ChatStreamCalls("", b) /\ UNCHANGED auxVars
  \/ InteractiveFails /\ UNCHANGED auxVars
  \/ \E a \in InteractiveAnswers(InteractiveRequests(toolCalls)) : InteractiveReturns(a) /\ UNCHANGED auxVars
  \/ SerialStart /\ UNCHANGED auxVars
  \/ SerialReturns /\ UNCHANGED auxVars
  \/ Emit /\ UNCHANGED auxVars

SpecInteractive == InitInteractive /\ [][NextInteractive]_vars

(* --------------------------- stream adapters --------------------------- *)
\* ChatStream of the two adapters from the 200 response on: the scan loop
\* over the lines of the response body (openai.go 135-223, anthropic.go
\* 121-183).  A line is modelled by what the loop reads from it.

Line(kind, content, frags, index, id, name, text) ==
  [kind |-> kind, content |-> content, frags |-> frags, index |-> index,
   id |-> id, name |-> name, text |-> text]

\* a line without the "data:" prefix (event:, blank or comment lines)
NotData == Line("notdata", "", << >>, 0, "", "", "")
\* a data line whose payload is not valid JSON
BadJSON == Line("badjson", "", << >>, 0, "", "", "")

\* Protocol A: one element of delta.tool_calls
Frag(index, id, name, arguments) ==
  [index |-> index, id |-> id, name |-> name, arguments |-> arguments]
\* Protocol A: a chunk with choices[0].delta = (content, tool_calls)
Chunk(content, frags) == Line("chunk", content, frags, 0, "", "", "")
\* Protocol A: a chunk with no choices (a usage chunk)
NoChoices == Line("nochoices", "", << >>, 0, "", "", "")
\* Protocol A: data: [DONE]
DoneLine == Line("[DONE]", "", << >>, 0, "", "", "")

F0a == Frag(0, "c0", "f", "{\"a\":")
F0b == Frag(0, "", "", "1}")
F0 == Frag(0, "c0", "f", "{\"a\":1}")
F1a == Frag(1, "c1", "g", "{\"b\":")
F1b == Frag(1, "", "", "2}")

\* the lines a Protocol A body is made of
LinesA ==
  { NotData, BadJSON, NoChoices, DoneLine,
    Chunk("Hello", << >>), Chunk(" world", << >>),
    Chunk("", <<F0a>>), Chunk("", <<F0b>>), Chunk("", <<F0>>),
    Chunk("", <<F1a>>), Chunk("", <<F1b>>),
    Chunk("", <<F0a, F1a>>) }

\* Protocol B events, by "type"; index is the event's content-block index
BlockStart(index, type, id, name) == Line("content_block_start", "", << >>, index, id, name, type)
BlockDelta(index, type, text) == Line(type, "", << >>, index, "", "", text)
BlockStop(index) == Line("content_block_stop", "", << >>, index, "", "", "")
MessageStop == Line("message_stop", "", << >>, 0, "", "", "")
\* a valid event of another type (ping, message_start, message_delta)
OtherEvent == Line("ping", "", << >>, 0, "", "", "")

\* the lines a Protocol B body is made of: a text block (index 0) and two
\* tool_use blocks (indexes 1 and 2)
LinesB ==
  { NotData, BadJSON, OtherEvent, MessageStop,
    BlockStart(0, "text", "", ""),
    BlockDelta(0, "text_delta", "Hello"), BlockDelta(0, "text_delta", " world"),
    BlockStop(0),
    BlockStart(1, "tool_use", "t1", "f"),
    BlockDelta(1, "input_json_delta", "{\"a\":"), BlockDelta(1, "input_json_delta", "1}"),
    BlockStop(1),
    BlockStart(2, "tool_use", "t2", "g"),
    BlockDelta(2, "input_json_delta", "{}"),
    BlockStop(2) }

\* all fragments of the Protocol A lines s, in arrival order
RECURSIVE FragsOf(_)
FragsOf(s) == IF Len(s) = 0 THEN << >> ELSE s[1].frags \o FragsOf(Tail(s))

Occurs(x, s) == \E k \in 1..Len(s) : s[k] = x

\* what a vendor sends for a tool call: its first fragment carries id and
\* name, a continuation carries neither and is not sent twice
RECURSIVE FragsWellFormed(_, _)
FragsWellFormed(before, fs) ==
  IF Len(fs) = 0 THEN TRUE
  ELSE LET f == fs[1]
           same == \E k \in 1..Len(before) : before[k].index = f.index
       IN /\ IF f.id # "" THEN ~same ELSE (same /\ ~Occurs(f, before))
          /\ FragsWellFormed(Append(before, f), Tail(fs))

\* the server may send line l after the lines s (Protocol A); the bodies
\* considered repeat no line
MaySendA(s, l) ==
  /\ l \in LinesA
  /\ ~Occurs(l, s)
  /\ FragsWellFormed(FragsOf(s), l.frags)

\* block index is open after s: started and not stopped
Open(s, index) ==
  /\ \E k \in 1..Len(s) : s[k].kind = "content_block_start" /\ s[k].index = index
  /\ ~\E k \in 1..Len(s) : s[k].kind = "content_block_stop" /\ s[k].index = index

\* the server may send line l after the lines s (Protocol B): a block starts
\* once, its deltas and its stop come while it is open, each delta once and
\* in order, and message_stop comes when no block is open; the bodies
\* considered repeat no line
MaySendB(s, l) ==
  /\ l \in LinesB
  /\ ~Occurs(l, s)
  /\ l.kind = "content_block_start" =>
       ~\E k \in 1..Len(s) : s[k].kind = "content_block_start" /\ s[k].index = l.index
  /\ l.kind \in {"text_delta", "input_json_delta"} =>
       /\ Open(s, l.index)
       /\ ~Occurs(l, s)
       /\ l.text = " world" => Occurs(BlockDelta(0, "text_delta", "Hello"), s)
       /\ l.text = "1}" => Occurs(BlockDelta(1, "input_json_delta", "{\"a\":"), s)
  /\ l.kind = "content_block_stop" => Open(s, l.index)
  /\ l.kind = "message_stop" => \A i \in 0..2 : ~Open(s, i)

StreamDelta(content, calls, isDone) ==
  [content |-> content, tool_calls |-> calls, done |-> isDone]

\* ---- Protocol A (OpenAI.ChatStream) ----

\* tcAcc[tc.Index], or the fresh entry made for an index seen for the first time
EntryOf(acc, index) ==
  IF \E e \in acc : e.index = index
    THEN CHOOSE e \in acc : e.index = index
    ELSE Frag(index, "", "", "")

\* a continuation fragment goes to the tool call started last
AccumulateByArrival(acc, f) ==
  LET index == IF f.id # "" \/ acc = {} THEN f.index
               ELSE CHOOSE i \in {e.index : e \in acc} : \A e \in acc : e.index <= i
      cur == EntryOf(acc, index)
  IN (acc \ {cur}) \cup
       {Frag(index, IF f.id # "" THEN f.id ELSE cur.id,
             IF f.name # "" THEN f.name ELSE cur.name,
             cur.arguments \o f.arguments)}

\* one pass of "for _, tc := range delta.ToolCalls": id and name are
\* overwritten when present, arguments are appended
Accumulate(acc, f) ==
  LET cur == EntryOf(acc, f.index)
  IN (acc \ {cur}) \cup
       {Frag(f.index, IF f.id # "" THEN f.id ELSE cur.id,
             IF f.name # "" THEN f.name ELSE cur.name,
             cur.arguments \o f.arguments)}

RECURSIVE AccumulateAll(_, _)
AccumulateAll(acc, fs) ==
  IF Len(fs) = 0 THEN acc ELSE AccumulateAll(Accumulate(acc, fs[1]), Tail(fs))

\* "for _, tc := range tcAcc": the iteration order of a Go map is not
\* specified, so every order of the accumulated calls is possible
FlushOrders(acc) ==
  { [k \in 1..Len(s) |-> ToolCall(s[k].id, s[k].name, s[k].arguments)] :
      s \in { t \in [1..Cardinality(acc) -> acc] :
                \A i, j \in 1..Cardinality(acc) : i # j => t[i] # t[j] } }

\* what ChatStream returns when the body ends without [DONE] and without a read error
EndOfBodyA(chunks, content) ==
  IF chunks > 0 THEN "stream ended without [DONE]"
  ELSE IF ~content THEN "empty response from API"
  ELSE "nil"

\* the closure prepends the new text
onDeltaPrepends(st, d) ==
  [fullContent |-> IF d.content # "" THEN d.content \o st.fullContent ELSE st.fullContent,
   toolCalls |-> st.toolCalls \o d.tool_calls,
   onText |-> IF d.content # "" THEN <<d.content>> \o st.onText ELSE st.onText]

\* the closure the engine passes to ChatStream: non-empty content is appended
\* to fullContent and forwarded to onText, tool calls are appended to toolCalls
onDelta(st, d) ==
  [fullContent |-> IF d.content # "" THEN st.fullContent \o d.content ELSE st.fullContent,
   toolCalls |-> st.toolCalls \o d.tool_calls,
   onText |-> IF d.content # "" THEN Append(st.onText, d.content) ELSE st.onText]

RECURSIVE onDeltas(_, _)
onDeltas(st, ds) ==
  IF Len(ds) = 0 THEN st ELSE onDeltas(onDelta(st, ds[1]), Tail(ds))

\* the adapter calls onDelta for each delta of ds, in order
Delivers(ds) ==
  /\ deltas' = deltas \o ds
  /\ callback' = onDeltas(callback, ds)

Scanning(p) == proto = p /\ phase = "scan" /\ sret = ""

Reads(p, l) ==
  /\ Scanning(p)
  /\ Len(seen) < MaxEvents
  /\ IF p = "A" THEN MaySendA(seen, l) ELSE MaySendB(seen, l)
  /\ seen' = Append(seen, l)

engineVars == <<Messages, pc, keepZone, summary, pre, ret, adapterCalls, turnVars,
                roundVars, confVars>>

\* the tool calls being accumulated: tcAcc (Protocol A), currentTool* (Protocol B)
Pending ==
  [tcAcc |-> tcAcc, id |-> currentToolID, name |-> currentToolName,
   args |-> currentToolArgs]

\* a line that does not parse drops what was accumulated
OnUnmarshalErrorResets(pending) == [tcAcc |-> {}, id |-> "", name |-> "", args |-> ""]

\* "if err := json.Unmarshal(...); err != nil { continue }": the loop goes to
\* the next line with its accumulated state as it was
OnUnmarshalError(pending) == pending

KeepsPending ==
  LET kept == OnUnmarshalError(Pending) IN
    /\ tcAcc' = kept.tcAcc
    /\ currentToolID' = kept.id
    /\ currentToolName' = kept.name
    /\ currentToolArgs' = kept.args

\* a line without "data:" is skipped and not counted
OpenAISkipsLine ==
  /\ Reads("A", NotData)
  /\ UNCHANGED <<proto, tcAcc, chunkCount, hasContent, currentToolID, currentToolName,
                 currentToolArgs, deltas, callback, sret, engineVars, requestVars, registryVars, transportVars>>

\* data: [DONE]: flush the accumulated tool calls with the completion marker
OpenAIDone ==
  /\ Reads("A", DoneLine)
  /\ chunkCount' = chunkCount + 1
  /\ \E tcs \in FlushOrders(tcAcc) : Delivers(<<StreamDelta("", tcs, TRUE)>>)
  /\ sret' = "nil"
  /\ UNCHANGED <<proto, tcAcc, hasContent, currentToolID, currentToolName,
                 currentToolArgs, engineVars, requestVars, registryVars, transportVars>>

\* json.Unmarshal fails: continue (the line was counted before it was parsed)
OpenAISkipsBadJSON ==
  /\ Reads("A", BadJSON)
  /\ chunkCount' = chunkCount + 1
  /\ KeepsPending
  /\ UNCHANGED <<proto, hasContent, deltas, callback, sret, engineVars, requestVars, registryVars, transportVars>>

\* len(chunk.Choices) == 0: continue
OpenAISkipsNoChoices ==
  /\ Reads("A", NoChoices)
  /\ chunkCount' = chunkCount + 1
  /\ UNCHANGED <<proto, tcAcc, hasContent, currentToolID, currentToolName,
                 currentToolArgs, deltas, callback, sret, engineVars, requestVars, registryVars, transportVars>>

\* a chunk with a delta: content is delivered at once, tool-call fragments
\* are accumulated
OpenAIChunk(l) ==
  /\ l.kind = "chunk"
  /\ Reads("A", l)
  /\ chunkCount' = chunkCount + 1
  /\ hasContent' = (hasContent \/ l.content # "" \/ Len(l.frags) > 0)
  /\ Delivers(IF l.content # "" THEN <<StreamDelta(l.content, << >>, FALSE)>> ELSE << >>)
  /\ tcAcc' = AccumulateAll(tcAcc, l.frags)
  /\ UNCHANGED <<proto, currentToolID, currentToolName, currentToolArgs, sret, engineVars, requestVars, registryVars, transportVars>>

\* scanner.Scan() returns false at the end of the body
OpenAIEndOfBody ==
  /\ Scanning("A")
  /\ sret' = EndOfBodyA(chunkCount, hasContent)
  /\ UNCHANGED <<proto, seen, tcAcc, chunkCount, hasContent, currentToolID,
                 currentToolName, currentToolArgs, deltas, callback, engineVars, requestVars, registryVars, transportVars>>

\* scanner.Scan() returns false with scanner.Err() != nil (read error, idle timeout)
OpenAIReadError ==
  /\ Scanning("A")
  /\ sret' = "stream read error"
  /\ UNCHANGED <<proto, seen, tcAcc, chunkCount, hasContent, currentToolID,
                 currentToolName, currentToolArgs, deltas, callback, engineVars, requestVars, registryVars, transportVars>>

\* ---- Protocol B (Anthropic.ChatStream) ----

\* "return scanner.Err()" after the loop: nil at a clean end of the body
ScannerErr(failed) == IF failed THEN "read error" ELSE "nil"

AnthropicSkipsLine ==
  /\ Reads("B", NotData)
  /\ UNCHANGED <<proto, tcAcc, chunkCount, hasContent, currentToolID, currentToolName,
                 currentToolArgs, deltas, callback, sret, engineVars, requestVars, registryVars, transportVars>>

\* json.Unmarshal fails: continue (the line is not counted)
AnthropicSkipsBadJSON ==
  /\ Reads("B", BadJSON)
  /\ KeepsPending
  /\ UNCHANGED <<proto, chunkCount, hasContent, deltas, callback, sret, engineVars, requestVars, registryVars,
                 transportVars>>

\* an event type the switch has no case for
AnthropicOtherEvent ==
  /\ Reads("B", OtherEvent)
  /\ chunkCount' = chunkCount + 1
  /\ UNCHANGED <<proto, tcAcc, hasContent, currentToolID, currentToolName,
                 currentToolArgs, deltas, callback, sret, engineVars, requestVars, registryVars, transportVars>>

\* content_block_start: a tool_use block sets the current tool, event.Index is not read
AnthropicBlockStart(l) ==
  /\ l.kind = "content_block_start"
  /\ Reads("B", l)
  /\ chunkCount' = chunkCount + 1
  /\ IF l.text = "tool_use"
       THEN /\ currentToolID' = l.id
            /\ currentToolName' = l.name
            /\ currentToolArgs' = ""
       ELSE UNCHANGED <<currentToolID, currentToolName, currentToolArgs>>
  /\ UNCHANGED <<proto, tcAcc, hasContent, deltas, callback, sret, engineVars, requestVars, registryVars, transportVars>>

\* content_block_delta: text is delivered, partial_json is appended to the current tool
AnthropicBlockDelta(l) ==
  /\ l.kind \in {"text_delta", "input_json_delta"}
  /\ Reads("B", l)
  /\ chunkCount' = chunkCount + 1
  /\ IF l.kind = "text_delta"
       THEN /\ Delivers(<<StreamDelta(l.text, << >>, FALSE)>>)
            /\ UNCHANGED currentToolArgs
       ELSE /\ currentToolArgs' = currentToolArgs \o l.text
            /\ UNCHANGED <<deltas, callback>>
  /\ UNCHANGED <<proto, tcAcc, hasContent, currentToolID, currentToolName, sret, engineVars, requestVars, registryVars, transportVars>>

\* the current tool stays set after it was emitted
BlockStopKeepsTool(id, name, args) ==
  IF id # ""
    THEN [emit |-> <<StreamDelta("", <<ToolCall(id, name, args)>>, FALSE)>>, id |-> id]
    ELSE [emit |-> << >>, id |-> id]

\* case "content_block_stop": the deltas delivered and the new currentToolID
BlockStopOutcome(id, name, args) ==
  IF id # ""
    THEN [emit |-> <<StreamDelta("", <<ToolCall(id, name, args)>>, FALSE)>>, id |-> ""]
    ELSE [emit |-> << >>, id |-> id]

\* content_block_stop: emit the current tool, if any
AnthropicBlockStop(l) ==
  /\ l.kind = "content_block_stop"
  /\ Reads("B", l)
  /\ chunkCount' = chunkCount + 1
  /\ LET out == BlockStopOutcome(currentToolID, currentToolName, currentToolArgs)
     IN /\ Delivers(out.emit)
        /\ currentToolID' = out.id
  /\ UNCHANGED <<proto, tcAcc, hasContent, currentToolName, currentToolArgs, sret, engineVars, requestVars, registryVars, transportVars>>

AnthropicMessageStop ==
  /\ Reads("B", MessageStop)
  /\ chunkCount' = chunkCount + 1
  /\ Delivers(<<StreamDelta("", << >>, TRUE)>>)
  /\ sret' = "nil"
  /\ UNCHANGED <<proto, tcAcc, hasContent, currentToolID, currentToolName,
                 currentToolArgs, engineVars, requestVars, registryVars, transportVars>>

\* scanner.Scan() returns false at the end of the body
AnthropicEndOfBody ==
  /\ Scanning("B")
  /\ sret' = ScannerErr(FALSE)
  /\ UNCHANGED <<proto, seen, tcAcc, chunkCount, hasContent, currentToolID,
                 currentToolName, currentToolArgs, deltas, callback, engineVars, requestVars, registryVars, transportVars>>

AnthropicReadError ==
  /\ Scanning("B")
  /\ sret' = ScannerErr(TRUE)
  /\ UNCHANGED <<proto, seen, tcAcc, chunkCount, hasContent, currentToolID,
                 currentToolName, currentToolArgs, deltas, callback, engineVars, requestVars, registryVars, transportVars>>

\* ---- the retrying transport (doWithRetry) and the status check ----

\* the JSON body of the request
Payload == "payload"

\* what io.ReadAll gives for a response of this status
BodyOf(status) ==
  IF status = 200 THEN ""
  ELSE IF status = 204 THEN ""
  ELSE IF status = 401 THEN "unauthorized"
  ELSE IF status = 429 THEN "slow down"
  ELSE "server error"

Statuses == {200, 204, 401, 429, 500, 503}

\* "resp.StatusCode == 429 || resp.StatusCode >= 500"
RetriesAlways(status) == status # 200

Retryable(status) == status = 429 \/ status >= 500

\* the request body is left as the previous attempt drained it
RetryBodyDrained(payload) == ""

\* "req.Body = io.NopCloser(bytes.NewReader(payload))"
RetryBody(payload) == payload

\* an attempt is not counted against the limit
MayRetryUnbounded(made, max) == TRUE

\* "i < retries": made is the number of retries made so far
MayRetry(made, max) == made < max

\* the error of ChatStream for a response whose status is not 200
APIErrorNoBody(p, r) ==
  (IF p = "A" THEN "API error " ELSE "Anthropic API error ") \o ToString(r.status) \o ": "

APIError(p, r) ==
  (IF p = "A" THEN "API error " ELSE "Anthropic API error ") \o ToString(r.status)
    \o ": " \o r.body

TransportError == "transport error"

\* "if resp.StatusCode != 200" is the error branch
StatusOK(status) == status = 200

\* client.Do returns a response
DoResponds(status) ==
  /\ phase = "do"
  /\ sret = ""
  /\ attempts' = Append(attempts, [sent |-> reqBody, status |-> status, err |-> ""])
  /\ reqBody' = ""
  /\ resp' = Response(status, BodyOf(status))
  /\ phase' = IF Retryable(status) /\ MayRetry(Len(attempts), retries)
                THEN "backoff" ELSE "check"
  /\ UNCHANGED <<proto, seen, tcAcc, chunkCount, hasContent, currentToolID, currentToolName,
                 currentToolArgs, deltas, callback, sret, retries, engineVars, requestVars, registryVars>>

\* client.Do returns an error: doWithRetry and ChatStream return it at once
DoFails ==
  /\ phase = "do"
  /\ sret = ""
  /\ attempts' = Append(attempts, [sent |-> reqBody, status |-> 0, err |-> TransportError])
  /\ reqBody' = ""
  /\ sret' = TransportError
  /\ UNCHANGED <<proto, seen, tcAcc, chunkCount, hasContent, currentToolID, currentToolName,
                 currentToolArgs, deltas, callback, phase, retries, resp, engineVars, requestVars, registryVars>>

\* resp.Body.Close(), the 2s sleep, and the request body is set again
Backoff ==
  /\ phase = "backoff"
  /\ reqBody' = RetryBody(Payload)
  /\ phase' = "do"
  /\ UNCHANGED <<proto, seen, tcAcc, chunkCount, hasContent, currentToolID, currentToolName,
                 currentToolArgs, deltas, callback, sret, retries, attempts, resp, engineVars, requestVars, registryVars>>

\* doWithRetry has returned resp: "if resp.StatusCode != 200" returns the API
\* error, otherwise the scan loop starts (the locals of doWithRetry are gone)
StatusCheck ==
  /\ phase = "check"
  /\ IF ~StatusOK(resp.status)
       THEN /\ sret' = APIError(proto, resp)
            /\ UNCHANGED <<phase, retries, attempts>>
       ELSE /\ phase' = "scan"
            /\ retries' = 0
            /\ attempts' = << >>
            /\ UNCHANGED sret
  /\ UNCHANGED <<proto, seen, tcAcc, chunkCount, hasContent, currentToolID, currentToolName,
                 currentToolArgs, deltas, callback, reqBody, resp, engineVars, requestVars, registryVars>>

\* the body stops delivering bytes and stays open
BodyStalls ==
  /\ phase = "scan"
  /\ sret = ""
  /\ phase' = "stalled"
  /\ UNCHANGED <<proto, seen, tcAcc, chunkCount, hasContent, currentToolID, currentToolName,
                 currentToolArgs, deltas, callback, sret, retries, attempts, reqBody, resp,
                 engineVars, requestVars, registryVars>>

\* idleTimeoutReader.Read: time.After(itr.timeout) fires, Read returns the idle
\* error, scanner.Scan() returns false and ChatStream returns the read error
OpenAIIdleTimeout ==
  /\ proto = "A"
  /\ phase = "stalled"
  /\ sret = ""
  /\ sret' = "stream read error: stream idle timeout"
  /\ UNCHANGED <<proto, seen, tcAcc, chunkCount, hasContent, currentToolID, currentToolName,
                 currentToolArgs, deltas, callback, transportVars, engineVars, requestVars, registryVars>>

\* ChatStream has built its request and calls doWithRetry; the Protocol B
\* adapter calls the transport with its single retry
InitStream ==
  /\ EngineInit
  /\ ContextLimit = 0
  /\ proto \in {"A", "B"}
  /\ seen = << >>
  /\ tcAcc = {}
  /\ chunkCount = 0
  /\ hasContent = FALSE
  /\ currentToolID = ""
  /\ currentToolName = ""
  /\ currentToolArgs = ""
  /\ deltas = << >>
  /\ callback = NoCallback
  /\ sret = ""
  /\ phase = "do"
  /\ retries \in (IF proto = "A" THEN 0..MaxRetries ELSE {1})
  /\ attempts = << >>
  /\ reqBody = Payload
  /\ resp = Response(200, "")
  /\ NoRequest
  /\ Populated

NextStream ==
  \/ \E st \in Statuses : DoResponds(st) /\ UNCHANGED auxVars
  \/ DoFails /\ UNCHANGED auxVars
  \/ Backoff /\ UNCHANGED auxVars
  \/ StatusCheck /\ UNCHANGED auxVars
  \/ BodyStalls /\ UNCHANGED auxVars
  \/ OpenAIIdleTimeout /\ UNCHANGED auxVars
  \/ OpenAISkipsLine /\ UNCHANGED auxVars
  \/ OpenAIDone /\ UNCHANGED auxVars
  \/ OpenAISkipsBadJSON /\ UNCHANGED auxVars
  \/ OpenAISkipsNoChoices /\ UNCHANGED auxVars
  \/ \E l \in LinesA : OpenAIChunk(l) /\ UNCHANGED auxVars
  \/ OpenAIEndOfBody /\ UNCHANGED auxVars
  \/ OpenAIReadError /\ UNCHANGED auxVars
  \/ AnthropicSkipsLine /\ UNCHANGED auxVars
  \/ AnthropicSkipsBadJSON /\ UNCHANGED auxVars
  \/ AnthropicOtherEvent /\ UNCHANGED auxVars
  \/ \E l \in LinesB : AnthropicBlockStart(l) /\ UNCHANGED auxVars
  \/ \E l \in LinesB : AnthropicBlockDelta(l) /\ UNCHANGED auxVars
  \/ \E l \in LinesB : AnthropicBlockStop(l) /\ UNCHANGED auxVars
  \/ AnthropicMessageStop /\ UNCHANGED auxVars
  \/ AnthropicEndOfBody /\ UNCHANGED auxVars
  \/ AnthropicReadError /\ UNCHANGED auxVars

SpecStream == InitStream /\ [][NextStream]_vars

\* the timer of idleTimeoutReader fires when the body stays silent
SpecStreamFair == SpecStream /\ WF_vars(OpenAIIdleTimeout /\ UNCHANGED auxVars)

(* ------------------------- request conversion -------------------------- *)

MaxBody == 3

\* one element of the request's "messages" array: its content is a string,
\* null, or a list of content blocks
WireMsg(role, shape, content, blocks, calls, id) ==
  [role |-> role, shape |-> shape, content |-> content, blocks |-> blocks,
   tool_calls |-> calls, tool_call_id |-> id]

Block(type, text, id, name, input) ==
  [type |-> type, text |-> text, id |-> id, name |-> name, input |-> input]

\* argument strings json.Unmarshal rejects or decodes to nil
Unparsable == {"", "null", "{"}

\* "if err := json.Unmarshal(...); err != nil || input == nil { input = {} }"
Input(arguments) == IF arguments \in Unparsable THEN "{}" ELSE arguments

\* the content blocks of an assistant message with tool calls
AssistantBlocks(m) ==
  (IF m.content # "" THEN << Block("text", m.content, "", "", "") >> ELSE << >>)
    \o [i \in 1..Len(m.tool_calls) |->
          Block("tool_use", "", m.tool_calls[i].id, m.tool_calls[i].name,
                Input(m.tool_calls[i].arguments))]

ToolResult(m) == Block("tool_result", m.content, m.tool_call_id, "", "")

\* the block is added to whatever user message came last
MergesAnyUser(w) == Len(w) > 0 /\ w[Len(w)].role = "user"

\* the last wire message is a user message whose content is a block list
Merges(w) == Len(w) > 0 /\ w[Len(w)].role = "user" /\ w[Len(w)].shape = "blocks"

\* Protocol B, one iteration of "for _, m := range messages"
AnthropicConvert(st, m) ==
  IF m.role = "system"
    THEN [st EXCEPT !.system = m.content]
  ELSE IF m.role = "assistant" /\ Len(m.tool_calls) > 0
    THEN [st EXCEPT !.msgs =
            Append(@, WireMsg("assistant", "blocks", "", AssistantBlocks(m), << >>, ""))]
  ELSE IF m.role = "tool"
    THEN IF Merges(st.msgs)
           THEN [st EXCEPT !.msgs[Len(st.msgs)].blocks = Append(@, ToolResult(m))]
           ELSE [st EXCEPT !.msgs =
                   Append(@, WireMsg("user", "blocks", "", << ToolResult(m) >>, << >>, ""))]
  ELSE [st EXCEPT !.msgs = Append(@, WireMsg(m.role, "string", m.content, << >>, << >>, ""))]

\* Protocol A, one iteration: content null when empty on an assistant or tool
\* message, tool_calls and tool_call_id carried over
OpenAIConvert(m) ==
  WireMsg(m.role,
          IF m.content = "" /\ m.role \in {"assistant", "tool"} THEN "null" ELSE "string",
          m.content, << >>, m.tool_calls, m.tool_call_id)

RECURSIVE AnthropicLoop(_, _)
AnthropicLoop(st, ms) ==
  IF Len(ms) = 0 THEN st ELSE AnthropicLoop(AnthropicConvert(st, ms[1]), Tail(ms))

\* the "system" and "messages" fields of the Protocol B request body
AnthropicBody(ms) == AnthropicLoop([system |-> "", msgs |-> << >>], ms)

\* the "messages" field of the Protocol A request body
OpenAIBody(ms) == [i \in 1..Len(ms) |-> OpenAIConvert(ms[i])]

\* the messages a transcript is made of
Heads ==
  { << Msg("system", SystemPrompt, << >>, "") >>,
    << Msg("system", SystemPrompt, << >>, ""),
       Msg("system", SummaryPrefix \o "sum", << >>, "") >> }

Conversation ==
  { Msg("user", "hello", << >>, ""),
    FinalMessage("done"),
    Msg("assistant", "", MkCalls(1, << <<"A", NoArgs>>, <<"B", "">> >>), ""),
    Msg("assistant", "text", MkCalls(1, << <<"A", KArgs>> >>), ""),
    Msg("tool", "A{}", << >>, "r1c1"),
    Msg("tool", "", << >>, "r1c2") }

RECURSIVE Bodies(_)
Bodies(n) ==
  IF n = 0 THEN { << >> }
  ELSE Bodies(n - 1) \cup { Append(b, m) : b \in { x \in Bodies(n - 1) : Len(x) = n - 1 },
                                           m \in Conversation }

Transcripts == { h \o b : h \in Heads, b \in Bodies(MaxBody) }

Converting(p) == proto = p /\ pos < Len(messages)

Converts(st) ==
  /\ system' = st.system
  /\ wire' = st.msgs
  /\ pos' = pos + 1
  /\ UNCHANGED <<messages, engineVars, streamVars, registryVars>>

AnthropicConverts ==
  Converts(AnthropicConvert([system |-> system, msgs |-> wire], messages[pos + 1]))

\* "if m.Role == "system" { system = m.Content; continue }"
AnthropicSystem ==
  /\ Converting("B")
  /\ messages[pos + 1].role = "system"
  /\ AnthropicConverts

AnthropicAssistantCalls ==
  /\ Converting("B")
  /\ messages[pos + 1].role = "assistant" /\ Len(messages[pos + 1].tool_calls) > 0
  /\ AnthropicConverts

AnthropicToolMerged ==
  /\ Converting("B")
  /\ messages[pos + 1].role = "tool" /\ Merges(wire)
  /\ AnthropicConverts

AnthropicToolWrapped ==
  /\ Converting("B")
  /\ messages[pos + 1].role = "tool" /\ ~Merges(wire)
  /\ AnthropicConverts

AnthropicPlain ==
  /\ Converting("B")
  /\ messages[pos + 1].role \notin {"system", "tool"}
  /\ ~(messages[pos + 1].role = "assistant" /\ Len(messages[pos + 1].tool_calls) > 0)
  /\ AnthropicConverts

OpenAIConverts ==
  /\ Converting("A")
  /\ Converts([system |-> system, msgs |-> Append(wire, OpenAIConvert(messages[pos + 1]))])

\* a ChatStream call about to convert the transcript it was handed
InitRequest ==
  /\ EngineInit
  /\ ContextLimit = 0
  /\ Populated
  /\ proto \in {"A", "B"}
  /\ seen = << >>
  /\ tcAcc = {}
  /\ chunkCount = 0
  /\ hasContent = FALSE
  /\ currentToolID = ""
  /\ currentToolName = ""
  /\ currentToolArgs = ""
  /\ deltas = << >>
  /\ callback = NoCallback
  /\ sret = ""
  /\ phase = "convert"
  /\ retries = 0
  /\ attempts = << >>
  /\ reqBody = ""
  /\ resp = Response(200, "")
  /\ messages \in Transcripts
  /\ pos = 0
  /\ system = ""
  /\ wire = << >>

NextRequest ==
  \/ AnthropicSystem /\ UNCHANGED auxVars
  \/ AnthropicAssistantCalls /\ UNCHANGED auxVars
  \/ AnthropicToolMerged /\ UNCHANGED auxVars
  \/ AnthropicToolWrapped /\ UNCHANGED auxVars
  \/ AnthropicPlain /\ UNCHANGED auxVars
  \/ OpenAIConverts /\ UNCHANGED auxVars

SpecRequest == InitRequest /\ [][NextRequest]_vars

(* ------------------------------- registry ------------------------------ *)

MaxRegistrations == 2

\* the names later registrations use (A is a built-in ReadOnly tool), the
\* handlers and the descriptions they come with
Names == {"A", "N"}
Handlers == {"h1", "h2"}
Descriptions == {"d1", "d2"}

\* the names Execute is called with and the name lists GetDefs is called with
Wanted == {"A", "N", "X"}
NameLists == { << >>, <<"N", "A">>, <<"X", "A">> }

\* the entry is written only when the name is new
PutIfAbsent(m, k, v) ==
  [n \in DOMAIN m \cup {k} |-> IF n \in DOMAIN m THEN m[n] ELSE v]

\* Go's m[k] = v
Put(m, k, v) == [n \in DOMAIN m \cup {k} |-> IF n = k THEN v ELSE m[n]]

\* what the handler h may return for a call: (result, error)
HandlerOutcomes(h, args) == { <<h \o args, "">>, <<"", h \o " failed">> }

UnknownToolNil(name) == <<"", "">>

\* return "", fmt.Errorf("unknown tool: %s", name)
UnknownTool(name) == <<"", "unknown tool: " \o name>>

\* Registry.Execute: the handler invoked, what it handed back, what is returned
ExecuteBy(hs, name, args) ==
  IF name \notin DOMAIN hs
    THEN { [invoked |-> "", handed |-> <<"", "">>, out |-> UnknownTool(name)] }
    ELSE { [invoked |-> hs[name], handed |-> r, out |-> r] : r \in HandlerOutcomes(hs[name], args) }

\* the orders in which "for _, d := range r.toolDefs" may visit the map
AnyOrder(td) ==
  LET n == Cardinality(DOMAIN td) IN
    { [i \in 1..n |-> td[f[i]]] :
        f \in { g \in [1..n -> DOMAIN td] : \A a, b \in 1..n : a # b => g[a] # g[b] } }

RECURSIVE DefsOf(_, _)
DefsOf(td, names) ==
  IF Len(names) = 0 THEN << >>
  ELSE (IF names[1] \in DOMAIN td THEN << td[names[1]] >> ELSE << >>)
         \o DefsOf(td, Tail(names))

\* Registry.GetDefs: every definition when no name is given, else the
\* definitions of the names that are registered, in the order asked
GetDefsOf(td, names) == IF Len(names) = 0 THEN AnyOrder(td) ELSE { DefsOf(td, names) }

notRegistry == <<Messages, pc, keepZone, summary, pre, ret, adapterCalls, turnVars,
                 roundVars, ContextLimit, CurrentModel, streamVars, requestVars>>

\* the registry is used by one caller at a time: no call is outstanding
Free == pc = "idle" /\ called = NoCall

MayRegister == Free /\ Len(registered) < Cardinality(InitTools) + MaxRegistrations

\* r.tools[def.Name] = h; r.toolDefs[def.Name] = def
Registers(def, h) ==
  /\ handlers' = Put(handlers, def.name, h)
  /\ toolDefs' = Put(toolDefs, def.name, def)
  /\ tools' = tools \cup {def.name}

Register(def, h) ==
  /\ MayRegister
  /\ Registers(def, h)
  /\ registered' = Append(registered, Registration(def.name, def, h, "Mutating"))
  /\ UNCHANGED <<readonly, called, notRegistry>>

\* r.Register(def, h); r.readonly[def.Name] = true
RegisterReadOnly(def, h) ==
  /\ MayRegister
  /\ Registers(def, h)
  /\ readonly' = readonly \cup {def.name}
  /\ registered' = Append(registered, Registration(def.name, def, h, "ReadOnly"))
  /\ UNCHANGED <<called, notRegistry>>

Executes(name, args) ==
  /\ Free
  /\ \E e \in ExecuteBy(handlers, name, args) :
       called' = Call("Execute", name, e.invoked, e.handed, e.out, << >>, << >>)
  /\ UNCHANGED <<tools, readonly, handlers, toolDefs, registered, notRegistry>>

GetDefs(names) ==
  /\ Free
  /\ \E ds \in GetDefsOf(toolDefs, names) :
       called' = Call("GetDefs", "", "", <<"", "">>, <<"", "">>, names, ds)
  /\ UNCHANGED <<tools, readonly, handlers, toolDefs, registered, notRegistry>>

\* the caller has taken what the call returned
Returns ==
  /\ pc = "idle"
  /\ called # NoCall
  /\ called' = NoCall
  /\ UNCHANGED <<tools, readonly, handlers, toolDefs, registered, notRegistry>>

\* NewRegistry() has registered the built-in tools
InitRegistry == Init /\ ContextLimit = 0

NextRegistry ==
  \/ \E n \in Names, d \in Descriptions, h \in Handlers : Register(ToolDef(n, d), h) /\ UNCHANGED auxVars
  \/ \E n \in Names, d \in Descriptions, h \in Handlers : RegisterReadOnly(ToolDef(n, d), h) /\ UNCHANGED auxVars
  \/ \E n \in Wanted : Executes(n, NoArgs) /\ UNCHANGED auxVars
  \/ \E ns \in NameLists : GetDefs(ns) /\ UNCHANGED auxVars
  \/ Returns /\ UNCHANGED auxVars

SpecRegistry == InitRegistry /\ [][NextRegistry]_vars

(* ------------------------------- claims -------------------------------- *)

RoundLimitError == "agentic loop exceeded rounds"

TurnEnded == pc = "idle" /\ ret.op = "send"
TurnFailed == TurnEnded /\ ret.err # ""
TurnSucceeded == TurnEnded /\ ret.err = ""

\* the engine is executing, or about to append, the tool calls of a round
InToolPhase == pc \in {"spawn", "wait", "serial", "exec", "emit"}

\* the round's results have just been appended
RoundAppended == pc = "top" /\ Len(toolCalls) > 0

\* the call is answered from the interactive collaborator's values, not executed
Answered(i) == i = interactiveToolIndex /\ ~interactiveResults.nil

\* position in the transcript of the round's assistant message, once appended
RoundBase == Len(Messages) - Len(toolCalls)

Computed(i) ==
  IF Answered(i) THEN Marshal(interactiveResults) ELSE ToolResultText(raw[i])

\* C3: after a round whose assistant message records k tool calls, exactly k tool
\* messages follow that assistant message, the i-th with the id of the i-th call
\* and the result computed for the i-th call, whatever the completion order.
C3_ResultsInCallOrder ==
  RoundAppended =>
    /\ RoundBase >= 1
    /\ Messages[RoundBase] = Msg("assistant", "", toolCalls, "")
    /\ \A i \in 1..Len(toolCalls) :
         Messages[RoundBase + i] = Msg("tool", Computed(i), << >>, toolCalls[i].id)

\* C3 witness: three parallel calls completed in reverse order, with three
\* different results, and their messages were appended
C3_Witness ==
  /\ RoundAppended
  /\ mode = "parallel"
  /\ arrival = <<3, 2, 1>>
  /\ raw[1] # raw[2] /\ raw[2] # raw[3] /\ raw[1] # raw[3]
  /\ Messages[Len(Messages)].tool_call_id = toolCalls[3].id

SomeNotReadOnly == \E i \in 1..Len(toolCalls) : ~IsReadOnly(readonly, toolCalls[i].name)

\* C4: if a call of the round targets a tool that is not ReadOnly, the calls run
\* serially in emission order: never two in flight, and call i is in flight only
\* when every earlier call has returned and no later call has started.
C4_SerialWhenMutating ==
  (InToolPhase /\ SomeNotReadOnly) =>
    /\ mode = "serial"
    /\ Cardinality(inflight) <= 1
    /\ \A i \in inflight :
         /\ \A j \in 1..(i - 1) : j \in done \/ Answered(j)
         /\ \A j \in i..Len(toolCalls) : j \notin done

\* C4 witness: calls [A, B, C] with C mutating; C runs after A and B returned
C4_Witness ==
  /\ Len(toolCalls) = 3
  /\ toolCalls[1].name = "A" /\ toolCalls[2].name = "B" /\ toolCalls[3].name = "C"
  /\ inflight = {3}
  /\ done = {1, 2}

AllReadOnlyNoInteractive ==
  /\ Len(toolCalls) > 1
  /\ \A i \in 1..Len(toolCalls) :
       IsReadOnly(readonly, toolCalls[i].name) /\ toolCalls[i].name # "interactive"

\* C5: more than one call, all ReadOnly, none interactive: the round takes the
\* parallel branch, every call has been started when the engine waits for a
\* result, and results are appended only after every call delivered its result.
C5_ParallelFanOutFanIn ==
  (InToolPhase /\ AllReadOnlyNoInteractive) =>
    /\ mode = "parallel"
    /\ pc = "wait" => inflight \cup done = 1..Len(toolCalls)
    /\ pc = "emit" =>
         /\ done = 1..Len(toolCalls)
         /\ inflight = {}
         /\ received = Len(toolCalls)
         /\ \A i \in 1..Len(toolCalls) : results[i].index = i - 1

\* C5 witness: three ReadOnly calls in flight at once while the engine waits
C5_Witness ==
  /\ pc = "wait"
  /\ AllReadOnlyNoInteractive
  /\ inflight = {1, 2, 3}

\* C6: a tool execution that returns an error (an unknown tool included) does not
\* end the turn: its message carries "error: " and the error, every other call of
\* the round is executed and recorded, and the loop goes on to the next round.
C6_ToolErrorAbsorbed ==
  /\ (InToolPhase \/ RoundAppended) => ret.err = "running"
  /\ pc = "emit" => \A i \in 1..Len(toolCalls) : i \in done \/ Answered(i)
  /\ RoundAppended =>
       \A i \in 1..Len(toolCalls) :
         /\ i \in done \/ Answered(i)
         /\ (i \in done /\ raw[i][2] # "") =>
              Messages[RoundBase + i].content = "error: " \o raw[i][2]
         /\ (i \in done /\ raw[i][2] = "") =>
              Messages[RoundBase + i].content = raw[i][1]

\* C6 witness: the first call named an unknown tool, its serial successor ran and
\* succeeded, both are recorded and the loop is at the top of the next round
C6_Witness ==
  /\ RoundAppended
  /\ toolCalls[1].name = "X"
  /\ raw[1][2] = "unknown tool: X"
  /\ Messages[RoundBase + 1].content = "error: unknown tool: X"
  /\ 2 \in done /\ raw[2][2] = ""

NoTurnInProgress == pc \in {"idle", "summarize"}

EmptyAssistant(m) == m.role = "assistant" /\ m.content = "" /\ Len(m.tool_calls) = 0

\* C8: a round with zero tool calls and empty text ends the turn with an error
\* (a turn never succeeds on it), and whenever no turn is in progress no
\* assistant message of the transcript has both empty content and no tool calls.
C8_EmptyResponseIsError ==
  /\ NoTurnInProgress => \A p \in 1..Len(Messages) : ~EmptyAssistant(Messages[p])
  /\ TurnSucceeded =>
       /\ Messages[Len(Messages)].role = "assistant"
       /\ Messages[Len(Messages)].content # ""

\* C8 witness: after a round of tool calls the second round came back empty and
\* the turn ended with the empty-response error
C8_Witness ==
  /\ TurnFailed
  /\ ret.err = "empty response"
  /\ round = 2
  /\ Len(Messages) = Len(pre)

\* the tool message at p names a tool_calls entry of an earlier assistant message
HasCall(msgs, p) ==
  \E q \in 1..(p - 1) :
    /\ msgs[q].role = "assistant"
    /\ \E j \in 1..Len(msgs[q].tool_calls) :
         msgs[q].tool_calls[j].id = msgs[p].tool_call_id

\* C9: whenever no turn is in progress, every tool message of the transcript
\* carries the id of a tool_calls entry of an assistant message that precedes it.
C9_ToolMessagesMatch ==
  NoTurnInProgress =>
    \A p \in 1..Len(Messages) : Messages[p].role = "tool" => HasCall(Messages, p)

\* C9 witness: a transcript rebuilt by a compression whose keep zone starts
\* with an assistant tool-call message and its tool messages
C9_Witness ==
  /\ pc = "idle"
  /\ ret.op = "compress" /\ ret.did = "compressed"
  /\ Len(Messages) >= 4
  /\ Messages[3].role = "assistant" /\ Len(Messages[3].tool_calls) > 0
  /\ Messages[4].role = "tool"

\* index of the last message before p that is not a tool message (0 if none)
RECURSIVE GroupHead(_, _)
GroupHead(msgs, p) ==
  IF p = 0 THEN 0
  ELSE IF msgs[p].role # "tool" THEN p
  ELSE GroupHead(msgs, p - 1)

\* every tool message sits in the group of the assistant message that called it
GroupsWhole(msgs) ==
  \A p \in 1..Len(msgs) :
    msgs[p].role = "tool" =>
      LET q == GroupHead(msgs, p) IN
        /\ q >= 1
        /\ msgs[q].role = "assistant"
        /\ p - q <= Len(msgs[q].tool_calls)
        /\ msgs[q].tool_calls[p - q].id = msgs[p].tool_call_id

\* C10: the boundary chosen by Compress never falls inside a group: the keep
\* zone never starts with a tool message, the compress zone and the keep zone
\* together are the messages after the system message, and after the
\* compression every tool message still follows its assistant message.
C10_BoundaryKeepsGroups ==
  /\ pc = "summarize" =>
       /\ Len(keepZone) < Len(Messages) - 1
       /\ keepZone = SubSeq(Messages, Len(Messages) - Len(keepZone) + 1, Len(Messages))
       /\ Len(keepZone) > 0 => keepZone[1].role # "tool"
       /\ GroupsWhole(SubSeq(Messages, 2, Len(Messages) - Len(keepZone)))
       /\ GroupsWhole(keepZone)
  /\ (pc = "idle" /\ ret.op = "compress" /\ ret.did = "compressed") =>
       GroupsWhole(Messages)

\* C10 witness: the budget ran out inside a group (the assistant message fit,
\* its tool results did not) and the whole group went to the compress zone
C10_Witness ==
  /\ pc = "summarize"
  /\ Len(keepZone) > 0
  /\ LET cut == Len(Messages) - Len(keepZone) IN
       /\ Messages[cut].role = "tool"
       /\ Walk(Tail(Messages), [cut |-> 0, accum |-> 0], TargetTokens(ContextLimit)).accum
            > TargetTokens(ContextLimit)

\* ---- context compression: outcome of Compress ----

CompressReturned == pc = "idle" /\ ret.op = "compress"

\* C11: when the summarization call of Compress fails, Compress returns that
\* error and the transcript is what it was when Compress was called.
C11_CompressFailureKeepsTranscript ==
  (CompressReturned /\ ret.did = "" /\ ret.err # "") =>
     /\ ret.err \in StreamErrors
     /\ Messages = pre

\* C11 witness: a summarization call over a transcript with a nonempty
\* compress zone has failed
C11_Witness ==
  /\ CompressReturned
  /\ ret.err \in StreamErrors
  /\ Len(Messages) > 2

\* C12: after a successful compression the transcript is the original first
\* system message, then one system message holding the collected summary,
\* then the kept tail of the old transcript, and it is no longer than before.
C12_RebuiltTranscript ==
  (CompressReturned /\ ret.did = "compressed") =>
     LET n == Len(Messages) IN
       /\ n >= 2
       /\ n <= Len(pre)
       /\ Messages[1] = pre[1]
       /\ Messages[2].role = "system"
       /\ Messages[2].content = SummaryPrefix \o summary
       /\ Messages[2].tool_calls = << >>
       /\ SubSeq(Messages, 3, n) = SubSeq(pre, Len(pre) - (n - 3), Len(pre))

\* C12 witness: a compression with a nonempty keep zone and a nonempty summary
\* has shortened the transcript
C12_Witness ==
  /\ CompressReturned
  /\ ret.did = "compressed"
  /\ summary # ""
  /\ Len(Messages) > 2
  /\ Len(Messages) < Len(pre)

\* characters of content plus, per tool call, name and arguments, summed
\* over the first n messages
RECURSIVE CharsUpTo(_, _)
CharsUpTo(msgs, n) ==
  IF n = 0 THEN 0
  ELSE LET m == msgs[n] IN
         Len(m.content)
         + (IF Len(m.tool_calls) = 0 THEN 0
            ELSE CharsUpTo([i \in 1..Len(m.tool_calls) |->
                              [content |-> m.tool_calls[i].name \o m.tool_calls[i].arguments,
                               tool_calls |-> << >>]],
                           Len(m.tool_calls)))
         + CharsUpTo(msgs, n - 1)

\* floor(C / 2.5) > limit, for a positive limit
Triggered(limit, msgs) ==
  /\ limit > 0
  /\ (2 * CharsUpTo(msgs, Len(msgs))) \div 5 > limit

\* C13: Compress goes on to compress exactly when the limit is positive and
\* floor(C / 2.5) exceeds it, C being the characters of all contents, tool-call
\* names and tool-call arguments of the transcript; otherwise it returns
\* without an adapter call and leaves the transcript unchanged.
C13_TriggerRule ==
  /\ pc = "summarize" => Triggered(ContextLimit, pre)
  /\ ret.op = "compress" =>
       /\ ret.did = "not needed" <=> ~Triggered(ContextLimit, pre)
       /\ ret.did = "not needed" => (pc = "idle" /\ ret.err = "" /\ Messages = pre)

\* C13 witness: both sides of the rule with a positive limit: a transcript
\* whose estimate equals the limit was left alone
C13_Witness ==
  /\ CompressReturned
  /\ ret.did = "not needed"
  /\ ContextLimit > 0
  /\ (2 * CharsUpTo(pre, Len(pre))) \div 5 = ContextLimit

\* C13 witness, other side: an estimate one above the limit started a compression
C13_WitnessTriggered ==
  /\ pc = "summarize"
  /\ (2 * CharsUpTo(pre, Len(pre))) \div 5 = ContextLimit + 1

\* per-message estimate: floor(len(content) / 2.5) plus, per tool call,
\* floor((len(name) + len(arguments)) / 2.5)
RECURSIVE EstCalls(_, _)
EstCalls(tcs, n) ==
  IF n = 0 THEN 0
  ELSE (2 * (Len(tcs[n].name) + Len(tcs[n].arguments))) \div 5 + EstCalls(tcs, n - 1)

Est(m) == (2 * Len(m.content)) \div 5 + EstCalls(m.tool_calls, Len(m.tool_calls))

RECURSIVE AccEst(_, _)
AccEst(msgs, n) == IF n = 0 THEN 0 ELSE Est(msgs[n]) + AccEst(msgs, n - 1)

\* 80% of the limit, as a whole number of tokens
Budget(limit) == (4 * limit) \div 5

\* c is the length of the compress zone the boundary rule gives for msgs:
\* every message of the zone that is not a tool result fits in the budget
\* together with all that precedes it, tool results are in the zone only
\* behind an assistant tool-call message of the zone, and the message after
\* the zone, if any, is not such a tool result and does not fit.
IsBoundary(msgs, c, limit) ==
  /\ c \in 0..Len(msgs)
  /\ \A j \in 1..c :
       IF msgs[j].role = "tool"
         THEN \E q \in 1..(j - 1) :
                /\ msgs[q].role = "assistant"
                /\ Len(msgs[q].tool_calls) > 0
                /\ \A i \in (q + 1)..j : msgs[i].role = "tool"
         ELSE AccEst(msgs, j) <= Budget(limit)
  /\ c < Len(msgs) =>
       /\ msgs[c + 1].role # "tool"
       /\ AccEst(msgs, c + 1) > Budget(limit)

\* C14: the compress zone is the longest prefix of the messages after the
\* system message whose accumulated estimates stay within 80% of the limit,
\* the walk stopping at the first message that would exceed it, except that
\* the tool results behind an included assistant tool-call message are
\* always included.
C14_BoundaryRule ==
  /\ pc = "summarize" =>
       IsBoundary(Tail(Messages), Len(Messages) - 1 - Len(keepZone), ContextLimit)
  /\ (CompressReturned /\ ret.did = "empty zone") =>
       IsBoundary(Tail(pre), 0, ContextLimit)

\* C14 witness: the zone ends exactly at the budget, its last message being a
\* tool result that was taken over the budget, and a message is kept
C14_Witness ==
  /\ pc = "summarize"
  /\ Len(keepZone) > 0
  /\ LET msgs == Tail(Messages)
         c == Len(msgs) - Len(keepZone)
     IN /\ c >= 2
        /\ msgs[c].role = "tool"
        /\ AccEst(msgs, c - 1) = Budget(ContextLimit)
        /\ AccEst(msgs, c) > Budget(ContextLimit)

\* C15: when compression is triggered and the first message after the system
\* message alone exceeds 80% of the limit, Compress returns without error,
\* without an adapter call and with the transcript unchanged.
C15_EmptyZoneReturnsNil ==
  /\ (ret.op = "compress" /\ Triggered(ContextLimit, pre) /\ Len(pre) >= 2
      /\ Est(pre[2]) > Budget(ContextLimit)) =>
        (pc = "idle" /\ ret.did = "empty zone")
  /\ (ret.op = "compress" /\ ret.did = "empty zone") =>
        (pc = "idle" /\ ret.err = "" /\ Messages = pre)

\* C15 witness: Compress was triggered on a transcript whose first message
\* after the system message is over the budget, and returned
C15_Witness ==
  /\ CompressReturned
  /\ ret.did = "empty zone"
  /\ Len(pre) >= 3
  /\ Est(pre[2]) > Budget(ContextLimit)

\* ---- stream adapters: what ChatStream delivers and returns ----

IsCallDelta(d) == Len(d.tool_calls) > 0

\* the ToolCalls delivered so far, one delta after the other
RECURSIVE CallsDelivered(_)
CallsDelivered(ds) ==
  IF Len(ds) = 0 THEN << >> ELSE ds[1].tool_calls \o CallsDelivered(Tail(ds))

\* the completion marker of the running adapter
Marker == IF proto = "A" THEN DoneLine ELSE MessageStop

Returned == sret # ""
Succeeded == sret = "nil"

\* C16: for both adapters, a body that ends before the completion marker
\* ([DONE] for A, message_stop for B) makes ChatStream return an error;
\* ChatStream never returns success without having read the marker.
C16_IncompleteStreamFails ==
  (Returned /\ ~Occurs(Marker, seen)) => ~Succeeded

\* C16, Protocol A alone: without [DONE], ChatStream returns an error
C16_ProtocolAFailsWithoutDone ==
  (proto = "A" /\ Returned /\ ~Occurs(DoneLine, seen)) => ~Succeeded

\* C16, the failing case: a Protocol B body that delivered text ended without
\* message_stop and ChatStream returned nil
C16_Witness ==
  /\ proto = "B"
  /\ Succeeded
  /\ ~Occurs(MessageStop, seen)
  /\ Len(deltas) > 0

\* C17: every ChatStream call that returns success has delivered exactly one
\* delta with Done, as the last delta; nothing is delivered after it.
C17_ExactlyOneDoneLast ==
  Succeeded =>
    /\ Len(deltas) >= 1
    /\ deltas[Len(deltas)].done
    /\ \A k \in 1..(Len(deltas) - 1) : ~deltas[k].done

\* C17, for the calls that read their completion marker
C17_OneDoneAfterMarker ==
  (Succeeded /\ Occurs(Marker, seen)) =>
    /\ Len(deltas) >= 1
    /\ deltas[Len(deltas)].done
    /\ \A k \in 1..(Len(deltas) - 1) : ~deltas[k].done
    /\ seen[Len(seen)] = Marker

\* C17, the failing case: a Protocol B call returned nil after a tool_use
\* block and delivered no delta with Done
C17_Witness ==
  /\ proto = "B"
  /\ Succeeded
  /\ Len(CallsDelivered(deltas)) = 1
  /\ \A k \in 1..Len(deltas) : ~deltas[k].done

\* the argument fragments of index i among fs, concatenated in arrival order
RECURSIVE ArgsOfIndex(_, _)
ArgsOfIndex(fs, i) ==
  IF Len(fs) = 0 THEN ""
  ELSE (IF fs[1].index = i THEN fs[1].arguments ELSE "") \o ArgsOfIndex(Tail(fs), i)

\* the fragment of index i that carries the id and the name
HeadOfIndex(fs, i) ==
  fs[CHOOSE k \in 1..Len(fs) : fs[k].index = i /\ fs[k].id # ""]

CallOfIndex(fs, i) ==
  ToolCall(HeadOfIndex(fs, i).id, HeadOfIndex(fs, i).name, ArgsOfIndex(fs, i))

IndexesOf(fs) == {fs[k].index : k \in 1..Len(fs)}

\* C18: in the Protocol A adapter the tool call of vendor index i has as its
\* arguments the concatenation, in arrival order, of exactly the fragments
\* tagged i, however the indexes interleave, with the id and name sent for i;
\* a split argument string gives the same ToolCall as the single fragment.
C18_ArgumentsByIndex ==
  proto = "A" =>
    LET fs == FragsOf(seen)
        want == {CallOfIndex(fs, i) : i \in IndexesOf(fs)}
    IN /\ {ToolCall(e.id, e.name, e.arguments) : e \in tcAcc} = want
       /\ Cardinality(tcAcc) = Cardinality(IndexesOf(fs))
       /\ (Occurs(F0a, fs) /\ Occurs(F0b, fs)) =>
            ToolCall(F0.id, F0.name, F0.arguments) \in want
       /\ Succeeded =>
            LET last == deltas[Len(deltas)].tool_calls
            IN /\ Len(last) = Cardinality(IndexesOf(fs))
               /\ {last[k] : k \in 1..Len(last)} = want

\* C18 witness: the argument string of index 0 came in two fragments with a
\* fragment of index 1 between them, and [DONE] flushed both tool calls
C18_Witness ==
  /\ proto = "A"
  /\ Succeeded
  /\ LET fs == FragsOf(seen) IN
       \E a, b, c \in 1..Len(fs) :
         a < b /\ b < c /\ fs[a] = F0a /\ fs[b] = F1a /\ fs[c] = F0b
  /\ Len(deltas[Len(deltas)].tool_calls) = 2

\* no block starts while another block is open
Sequential(s) ==
  \A k \in 1..Len(s) :
    s[k].kind = "content_block_start" =>
      \A i \in 0..2 : ~Open(SubSeq(s, 1, k - 1), i)

StartOfBlock(s, i) ==
  s[CHOOSE k \in 1..Len(s) : s[k].kind = "content_block_start" /\ s[k].index = i]

\* the partial_json fragments of block i among s, concatenated in order
RECURSIVE JSONOfBlock(_, _)
JSONOfBlock(s, i) ==
  IF Len(s) = 0 THEN ""
  ELSE (IF s[1].kind = "input_json_delta" /\ s[1].index = i THEN s[1].text ELSE "")
         \o JSONOfBlock(Tail(s), i)

\* one ToolCall per stopped tool_use block among the first k lines of s, in
\* the order of the stops
RECURSIVE CallsOfBlocks(_, _)
CallsOfBlocks(s, k) ==
  IF k = 0 THEN << >>
  ELSE CallsOfBlocks(s, k - 1) \o
         (IF s[k].kind = "content_block_stop" /\ StartOfBlock(s, s[k].index).text = "tool_use"
            THEN << ToolCall(StartOfBlock(s, s[k].index).id, StartOfBlock(s, s[k].index).name,
                             JSONOfBlock(SubSeq(s, 1, k), s[k].index)) >>
            ELSE << >>)

\* C19: in the Protocol B adapter every tool_use block (start, zero or more
\* input_json_delta, stop) gives exactly one ToolCall delta, delivered at its
\* stop, with the id and name of its start and the concatenation of its
\* partial_json fragments; the stop of a text block delivers no ToolCall,
\* also after a tool_use block.
C19_BlockEmitsOneCall ==
  (proto = "B" /\ Sequential(seen)) =>
    /\ CallsDelivered(deltas) = CallsOfBlocks(seen, Len(seen))
    /\ \A k \in 1..Len(deltas) :
         IsCallDelta(deltas[k]) =>
           (Len(deltas[k].tool_calls) = 1 /\ deltas[k].content = "" /\ ~deltas[k].done)

\* C19 witness: a tool_use block with two fragments has stopped and its one
\* ToolCall was delivered
C19_Witness ==
  /\ proto = "B"
  /\ Sequential(seen)
  /\ Len(seen) >= 4
  /\ seen[Len(seen)] = BlockStop(1)
  /\ CallsDelivered(deltas) = << ToolCall("t1", "f", "{\"a\":1}") >>

\* C19 witness, text block: a text block stopped after a tool_use block had
\* stopped, and only the tool_use block's ToolCall was delivered
C19_WitnessTextStop ==
  /\ proto = "B"
  /\ Sequential(seen)
  /\ Len(seen) >= 4
  /\ seen[Len(seen)] = BlockStop(0)
  /\ Occurs(BlockStop(1), seen)
  /\ Len(CallsDelivered(deltas)) = 1

\* the second tool_use block started before the first one stopped, and no
\* text block is part of the body
ToolBlocksInterleave(s) ==
  /\ \E a, b \in 1..Len(s) :
       /\ a < b
       /\ s[a].kind = "content_block_start" /\ s[a].text = "tool_use"
       /\ s[b].kind = "content_block_start" /\ s[b].text = "tool_use"
       /\ Open(SubSeq(s, 1, b - 1), s[a].index)
  /\ ~Occurs(BlockStart(0, "text", "", ""), s)

\* C20: in the Protocol B adapter, when two tool_use blocks with different
\* indexes interleave, each delivered ToolCall still has the id and name of
\* its own block and only the partial_json fragments of its own index.
C20_AttributedByIndex ==
  (proto = "B" /\ ToolBlocksInterleave(seen)) =>
    CallsDelivered(deltas) = CallsOfBlocks(seen, Len(seen))

\* C20: the interleaved case is reached: two tool_use blocks were open at
\* once and the first of them has stopped
C20_Interleaved ==
  /\ proto = "B"
  /\ \E a, b, c \in 1..Len(seen) :
       /\ a < b /\ b < c
       /\ seen[a] = BlockStart(1, "tool_use", "t1", "f")
       /\ seen[b] = BlockStart(2, "tool_use", "t2", "g")
       /\ seen[c] = BlockStop(1)

\* ---- stream adapters and the engine's closure ----

\* the text the vendor put in line l: the content of a Protocol A chunk, the
\* text of a Protocol B text_delta
TextOfLine(l) ==
  IF l.kind = "chunk" THEN l.content
  ELSE IF l.kind = "text_delta" THEN l.text
  ELSE ""

\* the non-empty texts of the lines s, in the order the vendor sent them
RECURSIVE VendorTexts(_)
VendorTexts(s) ==
  IF Len(s) = 0 THEN << >>
  ELSE (IF TextOfLine(s[1]) # "" THEN <<TextOfLine(s[1])>> ELSE << >>) \o VendorTexts(Tail(s))

RECURSIVE Concat(_)
Concat(ts) == IF Len(ts) = 0 THEN "" ELSE ts[1] \o Concat(Tail(ts))

\* the texts of the deltas ds, in the order of delivery
RECURSIVE TextsDelivered(_)
TextsDelivered(ds) ==
  IF Len(ds) = 0 THEN << >>
  ELSE (IF ds[1].content # "" THEN <<ds[1].content>> ELSE << >>) \o TextsDelivered(Tail(ds))

\* C21: text deltas reach the engine and are forwarded to onText in the order
\* the vendor emitted them, and the content of the final assistant message is
\* their concatenation in that order ("Hello", " world", [DONE] give
\* "Hello world").
C21_TextInVendorOrder ==
  LET sent == VendorTexts(seen) IN
    /\ TextsDelivered(deltas) = sent
    /\ callback.onText = sent
    /\ (Succeeded /\ Len(callback.toolCalls) = 0) =>
         /\ FinalMessage(callback.fullContent).role = "assistant"
         /\ FinalMessage(callback.fullContent).content = Concat(sent)
    /\ (proto = "A" /\ seen = <<Chunk("Hello", << >>), Chunk(" world", << >>), DoneLine>>) =>
         FinalMessage(callback.fullContent).content = "Hello world"

\* C21 witness: the Protocol A stream "Hello", " world", [DONE] was decoded
C21_Witness ==
  /\ proto = "A"
  /\ Succeeded
  /\ seen = <<Chunk("Hello", << >>), Chunk(" world", << >>), DoneLine>>
  /\ callback.onText = <<"Hello", " world">>

\* ---- the transport ----

IsAPIError(e, r) ==
  \E prefix \in {"API error ", "Anthropic API error "} :
    e = prefix \o ToString(r.status) \o ": " \o r.body

Non2xx(status) == status < 200 \/ status > 299

\* C22: when the response finally obtained has a non-2xx status, ChatStream
\* returns an error carrying the status code and the raw body, and no delta
\* at all is delivered; the scan loop runs only on a 200 response.
C22_Non2xxFailsWithoutDeltas ==
  /\ phase \in {"scan", "stalled"} => ~Non2xx(resp.status)
  /\ (phase = "check" /\ Returned /\ Non2xx(resp.status)) =>
       /\ IsAPIError(sret, resp)
       /\ resp.status = attempts[Len(attempts)].status
       /\ resp.body = BodyOf(resp.status)
       /\ deltas = << >>
       /\ callback = NoCallback
  /\ (phase \in {"do", "backoff", "check"}) => deltas = << >>

\* C22 witness: after a retry the final response was 401 and ChatStream
\* returned the API error with its body
C22_Witness ==
  /\ phase = "check"
  /\ Len(attempts) = 2
  /\ resp.status = 401
  /\ sret = "API error 401: unauthorized"

\* C26: the transport makes at most 1 + retries attempts; an attempt after
\* the first follows a response with status 429 or >= 500; every attempt
\* sends the original payload; a transport error ends the call at once.
C26_BoundedRetry ==
  /\ Len(attempts) <= 1 + retries
  /\ \A k \in 1..Len(attempts) :
       /\ attempts[k].sent = Payload
       /\ k < Len(attempts) =>
            /\ attempts[k].err = ""
            /\ (attempts[k].status = 429 \/ attempts[k].status >= 500)
  /\ (Len(attempts) > 0 /\ attempts[Len(attempts)].err # "") => sret = TransportError
  /\ phase = "backoff" =>
       (attempts[Len(attempts)].status = 429 \/ attempts[Len(attempts)].status >= 500)

\* C26 witness: with two retries allowed, three attempts were made, the last
\* one after a 429, and the third response was returned
C26_Witness ==
  /\ retries = 2
  /\ Len(attempts) = 3
  /\ attempts[2].status = 429
  /\ phase = "check"

\* C26 witness, transport error: the second attempt failed and doWithRetry returned
C26_WitnessTransportError ==
  /\ Len(attempts) = 2
  /\ attempts[2].err = TransportError
  /\ sret = TransportError

\* C27: for every adapter, when the body stops delivering bytes without
\* being closed, ChatStream eventually returns.
C27_StallEventuallyReturns == (phase = "stalled") ~> Returned

\* C27, Protocol A alone: the idle timer ends a stalled call
C27_ProtocolAReturns == (proto = "A" /\ phase = "stalled") ~> Returned

\* C27: the error returned for a stall is not a request failure and the
\* deltas delivered before the stall stay delivered
C27_StallErrorDistinct ==
  (phase = "stalled" /\ Returned) =>
     /\ sret = "stream read error: stream idle timeout"
     /\ sret # TransportError
     /\ ~IsAPIError(sret, resp)
     /\ TextsDelivered(deltas) = VendorTexts(seen)

\* C27, the failing case: the Protocol B call is stalled after it delivered text
C27_Witness ==
  /\ proto = "B"
  /\ phase = "stalled"
  /\ ~Returned
  /\ Len(deltas) > 0

\* ---- tolerant parsing ----

\* the lines s without those that are not valid JSON
RECURSIVE Strip(_)
Strip(s) ==
  IF Len(s) = 0 THEN << >>
  ELSE (IF s[1] = BadJSON THEN << >> ELSE <<s[1]>>) \o Strip(Tail(s))

\* what was delivered and accumulated is what the stream without its
\* invalid lines calls for
AsWithoutBadLines ==
  LET clean == Strip(seen) IN
    /\ TextsDelivered(deltas) = VendorTexts(clean)
    /\ proto = "A" =>
         {ToolCall(e.id, e.name, e.arguments) : e \in tcAcc}
           = {CallOfIndex(FragsOf(clean), i) : i \in IndexesOf(FragsOf(clean))}
    /\ (proto = "B" /\ Sequential(clean)) =>
         CallsDelivered(deltas) = CallsOfBlocks(clean, Len(clean))

\* a step that scans a line that is not valid JSON delivers nothing and
\* leaves the pending tool call and the return value as they were
BadLineChangesNothing ==
  seen' = Append(seen, BadJSON) =>
    /\ deltas' = deltas
    /\ callback' = callback
    /\ tcAcc' = tcAcc
    /\ currentToolID' = currentToolID
    /\ currentToolName' = currentToolName
    /\ currentToolArgs' = currentToolArgs
    /\ hasContent' = hasContent
    /\ sret' = sret

\* C23: a line whose payload is not valid JSON is skipped by both adapters:
\* it delivers no delta and changes no accumulated state, so the deltas of a
\* stream with such lines are those of the stream without them.
C23_BadJSONSkipped == [][BadLineChangesNothing]_vars /\ []AsWithoutBadLines

\* C23 witness: an invalid line came between the two argument fragments of a
\* tool call and the call was delivered whole (Protocol A at [DONE],
\* Protocol B at the block stop)
C23_Witness ==
  /\ \E a, b \in 1..Len(seen) : a < b /\ seen[b] = BadJSON /\ b < Len(seen)
       /\ seen[a].kind \in {"chunk", "input_json_delta"}
  /\ \E k \in 1..Len(deltas) :
       /\ Len(deltas[k].tool_calls) = 1
       /\ deltas[k].tool_calls[1].arguments = "{\"a\":1}"
  /\ LET fs == FragsOf(seen) IN
       proto = "A" => (Occurs(F0a, fs) /\ Occurs(F0b, fs)
                       /\ \E a, b, c \in 1..Len(seen) :
                            a < b /\ b < c /\ seen[a] = Chunk("", <<F0a>>)
                            /\ seen[b] = BadJSON /\ seen[c] = Chunk("", <<F0b>>))

\* ---- request conversion ----

\* the transcript's non-system messages grouped: every maximal run of
\* consecutive tool messages is one group, every other message a group of its own
RECURSIVE Groups(_, _, _)
Groups(ms, acc, inRun) ==
  IF Len(ms) = 0 THEN acc
  ELSE LET m == ms[1] IN
    IF m.role = "system" THEN Groups(Tail(ms), acc, FALSE)
    ELSE IF m.role = "tool" /\ inRun
      THEN Groups(Tail(ms), [acc EXCEPT ![Len(acc)] = Append(@, m)], TRUE)
    ELSE Groups(Tail(ms), Append(acc, << m >>), m.role = "tool")

\* the wire message w is the user message of the tool run g: one tool_result
\* block per tool message, in order, with its tool_use_id and its text
WrapsRun(w, g) ==
  /\ w.role = "user"
  /\ w.shape = "blocks"
  /\ Len(w.blocks) = Len(g)
  /\ \A j \in 1..Len(g) :
       /\ w.blocks[j].type = "tool_result"
       /\ w.blocks[j].id = g[j].tool_call_id
       /\ w.blocks[j].text = g[j].content

\* the wire message w came from the one message m, which is not a tool message
FromOne(w, m) ==
  /\ w.role = m.role
  /\ \A j \in 1..Len(w.blocks) : w.blocks[j].type # "tool_result"
  /\ m.role = "user" => (w.shape = "string" /\ w.content = m.content /\ w.blocks = << >>)

\* C24: in the Protocol B request every maximal run of consecutive tool
\* messages is exactly one wire message of role "user" holding one
\* tool_result block per tool message, in transcript order, each with the
\* tool_use_id of its tool message; no tool_result block is merged into the
\* wire message of an ordinary user message.
C24_ToolRunsWrapped ==
  proto = "B" =>
    LET g == Groups(SubSeq(messages, 1, pos), << >>, FALSE) IN
      /\ Len(wire) = Len(g)
      /\ \A k \in 1..Len(g) :
           IF g[k][1].role = "tool" THEN WrapsRun(wire[k], g[k])
                                    ELSE FromOne(wire[k], g[k][1])

\* C24 witness: a run of two tool messages right after an ordinary user
\* message was converted: the user message kept its string content and the
\* run became one wire message of two blocks
C24_Witness ==
  /\ proto = "B"
  /\ pos = Len(messages)
  /\ \E i \in 1..(Len(messages) - 2) :
       /\ messages[i].role = "user"
       /\ messages[i + 1].role = "tool"
       /\ messages[i + 2].role = "tool"
  /\ \E k \in 2..Len(wire) :
       /\ wire[k - 1].shape = "string" /\ wire[k - 1].role = "user"
       /\ Len(wire[k].blocks) = 2
       /\ wire[k].blocks[1].id \in {"r1c1", "r1c2"}

\* the non-empty contents of the messages ms, in order
RECURSIVE Contents(_)
Contents(ms) ==
  IF Len(ms) = 0 THEN << >>
  ELSE (IF ms[1].content # "" THEN << ms[1].content >> ELSE << >>) \o Contents(Tail(ms))

RECURSIVE BlockTexts(_)
BlockTexts(bs) ==
  IF Len(bs) = 0 THEN << >>
  ELSE (IF bs[1].text # "" THEN << bs[1].text >> ELSE << >>) \o BlockTexts(Tail(bs))

\* the non-empty texts the wire messages w carry, in order
RECURSIVE Carried(_)
Carried(w) ==
  IF Len(w) = 0 THEN << >>
  ELSE (IF w[1].shape = "blocks" THEN BlockTexts(w[1].blocks)
        ELSE IF w[1].content # "" THEN << w[1].content >> ELSE << >>)
         \o Carried(Tail(w))

CarriedA(ms) == Carried(OpenAIBody(ms))

CarriedB(ms) ==
  LET body == AnthropicBody(ms) IN
    (IF body.system # "" THEN << body.system >> ELSE << >>) \o Carried(body.msgs)

SystemMessages(ms) == { i \in 1..Len(ms) : ms[i].role = "system" }

\* C25: for every transcript the engine holds, the request of each adapter
\* carries the content of every transcript message: none is dropped or
\* replaced by another message's content.
C25_EveryContentCarried ==
  /\ CarriedA(Messages) = Contents(Messages)
  /\ CarriedB(Messages) = Contents(Messages)

\* C25, Protocol A alone: every content is carried
C25_ProtocolACarriesAll == CarriedA(Messages) = Contents(Messages)

\* C25, Protocol B: every content is carried while the transcript has one
\* system message; of several system messages only the last one is sent
C25_ProtocolBKeepsLastSystem ==
  LET sys == SystemMessages(Messages) IN
    /\ Cardinality(sys) <= 1 => CarriedB(Messages) = Contents(Messages)
    /\ Cardinality(sys) > 1 =>
         /\ AnthropicBody(Messages).system = Messages[2].content
         /\ CarriedB(Messages) = Tail(Contents(Messages))

\* C25 witness: the transcript after a compression, which starts with the
\* system prompt and the summary, both system messages
C25_Witness ==
  /\ Len(Messages) >= 2
  /\ Messages[1].role = "system" /\ Messages[1].content = SystemPrompt
  /\ Messages[2].role = "system"
  /\ AnthropicBody(Messages).system # SystemPrompt

\* ---- registry ----

RegisteredNames == { registered[i].name : i \in 1..Len(registered) }

\* the last registration made under the name
LastOf(name) ==
  registered[CHOOSE i \in 1..Len(registered) :
               /\ registered[i].name = name
               /\ \A j \in (i + 1)..Len(registered) : registered[j].name # name]

RECURSIVE LastDefs(_)
LastDefs(names) ==
  IF Len(names) = 0 THEN << >>
  ELSE (IF names[1] \in RegisteredNames THEN << LastOf(names[1]).def >> ELSE << >>)
         \o LastDefs(Tail(names))

\* C28: after any sequence of registrations the registry holds, for every
\* name, one handler and one definition, those of the last registration under
\* that name: Execute invokes the last registered handler and GetDefs returns
\* the last registered definition.
C28_LastRegistrationWins ==
  /\ DOMAIN handlers = RegisteredNames
  /\ DOMAIN toolDefs = RegisteredNames
  /\ \A n \in RegisteredNames :
       handlers[n] = LastOf(n).handler /\ toolDefs[n] = LastOf(n).def
  /\ (called.op = "Execute" /\ called.name \in RegisteredNames) =>
       called.invoked = LastOf(called.name).handler
  /\ called.op = "GetDefs" =>
       IF Len(called.names) = 0
         THEN /\ Len(called.defs) = Cardinality(RegisteredNames)
              /\ { called.defs[i] : i \in 1..Len(called.defs) }
                   = { LastOf(n).def : n \in RegisteredNames }
         ELSE called.defs = LastDefs(called.names)

\* C28 witness: a name was registered twice with different handlers and
\* definitions, and Execute under that name invoked the second handler
C28_Witness ==
  /\ called.op = "Execute"
  /\ \E i, j \in 1..Len(registered) :
       /\ i < j
       /\ registered[i].name = called.name /\ registered[j].name = called.name
       /\ registered[i].handler # registered[j].handler
       /\ registered[i].def # registered[j].def
       /\ called.invoked = registered[j].handler

\* C28 witness: GetDefs by name returned the second definition of a name
\* registered twice
C28_WitnessGetDefs ==
  /\ called.op = "GetDefs"
  /\ Len(called.names) > 0 /\ Len(called.defs) = 2
  /\ \E i, j \in 1..Len(registered) :
       /\ i < j
       /\ registered[i].name = "N" /\ registered[j].name = "N"
       /\ registered[i].def # registered[j].def
       /\ called.defs[1] = registered[j].def

\* rounds of two calls the model may ask for
RoundsOfTwo ==
  { MkCalls(1, << <<a, NoArgs>>, <<b, NoArgs>> >>) : a, b \in {"A", "B", "N"} }

RunsInParallel(tcs) == allReadOnly(readonly, tcs, 0) /\ Len(tcs) > 1

\* C29: the concurrency class of a name is that of its last registration:
\* IsReadOnly is false for a name last registered Mutating, and a round with
\* a call to such a name is not executed in parallel.
C29_ClassOfLastRegistration ==
  /\ \A n \in RegisteredNames :
       IsReadOnly(readonly, n) <=> LastOf(n).class = "ReadOnly"
  /\ \A tcs \in RoundsOfTwo :
       (\E i \in 1..Len(tcs) :
          tcs[i].name \in RegisteredNames /\ LastOf(tcs[i].name).class = "Mutating")
         => ~RunsInParallel(tcs)

\* C29, what the registry does: a name is ReadOnly as soon as one of its
\* registrations was ReadOnly
C29_ReadOnlyOnceReadOnly ==
  \A n \in RegisteredNames :
    IsReadOnly(readonly, n) <=>
      \E i \in 1..Len(registered) :
        registered[i].name = n /\ registered[i].class = "ReadOnly"

\* C29 witness: A, registered ReadOnly and then Mutating, still counts as
\* ReadOnly and a round calling A and B takes the parallel branch
C29_Witness ==
  /\ LastOf("A").class = "Mutating"
  /\ IsReadOnly(readonly, "A")
  /\ RunsInParallel(MkCalls(1, << <<"A", NoArgs>>, <<"B", NoArgs>> >>))

\* C30: Execute with a name that has no registration returns an unknown-tool
\* error with empty result text and invokes no handler; with a registered
\* name it returns exactly what the handler returned.
C30_ExecuteContract ==
  called.op = "Execute" =>
    IF called.name \notin RegisteredNames
      THEN /\ called.result = ""
           /\ called.err = "unknown tool: " \o called.name
           /\ called.invoked = ""
      ELSE /\ called.invoked = handlers[called.name]
           /\ called.handed \in HandlerOutcomes(called.invoked, NoArgs)
           /\ <<called.result, called.err>> = called.handed

\* C30 witness: Execute was called with a name nobody registered
C30_Witness ==
  /\ called.op = "Execute"
  /\ called.name = "X"
  /\ called.err # ""

\* C30 witness: the handler of a registered name failed and Execute returned
\* its error
C30_WitnessHandlerError ==
  /\ called.op = "Execute"
  /\ called.name = "N"
  /\ called.invoked \in Handlers
  /\ called.err = called.invoked \o " failed"

\* ---- interactive input ----

\* the first call of the round to the interactive tool, 0 if there is none
FirstNamedInteractive ==
  IF \E i \in 1..Len(toolCalls) : toolCalls[i].name = "interactive"
    THEN CHOOSE i \in 1..Len(toolCalls) :
           /\ toolCalls[i].name = "interactive"
           /\ \A j \in 1..(i - 1) : toolCalls[j].name # "interactive"
    ELSE 0

\* the first call to the interactive tool whose arguments hold a fields
\* array, 0 if there is none
FirstWithFields ==
  LET with == { i \in 1..Len(toolCalls) :
                  toolCalls[i].name = "interactive" /\ ParseFields(toolCalls[i].arguments).ok }
  IN IF with = {} THEN 0 ELSE CHOOSE i \in with : \A j \in with : i <= j

Collected == ~interactiveResults.nil

\* call h is the one honored: the collaborator is asked once, for the fields
\* of call h, before any tool runs; its values are the result of call h
\* alone and every other call is executed by the registry
Honors(h) ==
  /\ pc = "ask" =>
       /\ h # 0
       /\ InteractiveRequests(toolCalls) = ParseFields(toolCalls[h].arguments).reqs
       /\ ~Collected
       /\ done = {} /\ inflight = {}
  /\ Collected =>
       /\ h # 0
       /\ [i \in 1..Len(interactiveResults.kv) |-> interactiveResults.kv[i][1]]
            = [i \in 1..Len(ParseFields(toolCalls[h].arguments).reqs) |->
                 ParseFields(toolCalls[h].arguments).reqs[i].name]
       /\ h \notin done
  /\ pc = "emit" =>
       \A i \in 1..Len(toolCalls) :
         IF i = h /\ Collected
           THEN results[i].result = Marshal(interactiveResults)
           ELSE i \in done /\ results[i].result = ToolResultText(raw[i])

\* C31 as stated: of several calls to the interactive tool in a round only
\* the first one in emission order is honored: the collaborator is invoked at
\* most once, with the field requests of that first call, before any tool
\* executes; its values are the result of that call only and every later
\* interactive call goes to ordinary registry execution.
C31_FirstCallHonored == Honors(FirstNamedInteractive)

\* C31 amended: the call honored is the first call to the interactive tool
\* whose arguments hold a fields array; an interactive call before it, whose
\* arguments hold none, is executed by the registry like the later ones.
C31_FirstCallWithFieldsHonored == Honors(FirstWithFields)

\* C31 witness: two interactive calls with fields; the values collected for
\* the first are its result and the second was executed by the registry
C31_Witness ==
  /\ pc = "emit"
  /\ Collected
  /\ Len(toolCalls) = 2
  /\ toolCalls[1].name = "interactive" /\ toolCalls[2].name = "interactive"
  /\ results[1].result = Marshal(interactiveResults)
  /\ 2 \in done
  /\ results[2].result = "interactive input collected"

\* C31 witness: the first interactive call held no fields array and the
\* second one was honored
C31_WitnessSecondHonored ==
  /\ pc = "emit"
  /\ Collected
  /\ FirstNamedInteractive = 1
  /\ FirstWithFields = 2
  /\ 1 \in done
  /\ results[2].result = Marshal(interactiveResults)

\* ---- a turn whose collaborators all return ----

InitTurn == Init /\ ContextLimit = 0

\* a step of the running turn: the engine's own code, or the return of an
\* adapter call, of a tool execution or of the interactive collaborator
TurnStep ==
  \/ RoundTop /\ UNCHANGED auxVars
  \/ \E e \in StreamErrors : ChatStreamFails(e) /\ UNCHANGED auxVars
  \/ \E t \in Texts : ChatStreamText(t) /\ UNCHANGED auxVars
  \/ \E t \in Texts, b \in Batches \cup {LoopBatch} : ChatStreamCalls(t, b) /\ UNCHANGED auxVars
  \/ InteractiveFails /\ UNCHANGED auxVars
  \/ \E a \in InteractiveAnswers(InteractiveRequests(toolCalls)) : InteractiveReturns(a) /\ UNCHANGED auxVars
  \/ Spawn /\ UNCHANGED auxVars
  \/ \E i \in inflight : GoroutineReturns(i) /\ UNCHANGED auxVars
  \/ Receive /\ UNCHANGED auxVars
  \/ SerialStart /\ UNCHANGED auxVars
  \/ SerialReturns /\ UNCHANGED auxVars
  \/ Emit /\ UNCHANGED auxVars

NextTurn ==
  \/ \E u \in UserMsgs, h \in BOOLEAN, s \in Scripts : SendWithInteractive(u, h, s) /\ UNCHANGED auxVars
  \/ Cancel /\ UNCHANGED auxVars
  \/ TurnStep

\* SendWithInteractive runs on one goroutine and blocks only in the calls of
\* its collaborators, which are taken to return
SpecTurnFair == InitTurn /\ [][NextTurn]_vars /\ WF_vars(TurnStep)

\* ---- the terminal UI: a turn requested while Compress runs ----

InitOverlap == Init /\ ContextLimit = 5

\* what the user types
Typed == {"hello world"}

\* Enter in chat mode: m.waiting = true and sendCmd starts the turn on its own goroutine
sendCmd(input) ==
  /\ ~waiting
  /\ waiting' = TRUE
  /\ SendWithInteractive(input, FALSE, "varied")
  /\ UNCHANGED <<compressing, msgsLen, sensitiveValues, debugFile>>

\* streamDoneMsg: the turn has returned its text; input is accepted again and,
\* when the transcript needs it, Compress is started in the background and
\* runs up to its summarization call
streamDoneMsg ==
  /\ waiting
  /\ pc = "idle"
  /\ ret = [op |-> "send", err |-> "", did |-> ""]
  /\ ~(compressing /\ NeedsCompression(ContextLimit, Messages))
  /\ waiting' = FALSE
  /\ IF NeedsCompression(ContextLimit, Messages)
          /\ ~EmptyZone(CutIdx(Messages, ContextLimit))
       THEN /\ compressing' = TRUE
            /\ keepZone' = KeepZone(Messages, CutIdx(Messages, ContextLimit))
            /\ msgsLen' = Len(Messages)
            /\ summary' = ""
       ELSE UNCHANGED <<compressing, keepZone, msgsLen, summary>>
  /\ UNCHANGED <<Messages, pc, pre, ret, adapterCalls, turnVars, roundVars, confVars,
                 streamVars, requestVars, registryVars, sensitiveValues, debugFile>>

\* the background Compress gets its summary, rebuilds e.Messages from the keep
\* zone it took when it started, and compressDoneMsg clears m.compressing
compressDoneMsg(text) ==
  /\ compressing
  /\ Messages' = Rebuild(Messages, keepZone, text)
  /\ summary' = text
  /\ keepZone' = << >>
  /\ compressing' = FALSE
  /\ UNCHANGED <<pc, pre, ret, adapterCalls, turnVars, roundVars, confVars, streamVars,
                 requestVars, registryVars, waiting, msgsLen, sensitiveValues, debugFile>>

\* the summarization call of the background Compress fails: compressErrMsg
compressErrMsg ==
  /\ compressing
  /\ Messages' = TranscriptOnError(Messages, keepZone)
  /\ keepZone' = << >>
  /\ compressing' = FALSE
  /\ UNCHANGED <<pc, summary, pre, ret, adapterCalls, turnVars, roundVars, confVars, streamVars,
                 requestVars, registryVars, waiting, msgsLen, sensitiveValues, debugFile>>

NextOverlap ==
  \/ \E input \in Typed : sendCmd(input)
  \/ RoundTop /\ UNCHANGED auxVars
  \/ ChatStreamText("done") /\ UNCHANGED auxVars
  \/ \E b \in Batches : ChatStreamCalls("", b) /\ UNCHANGED auxVars
  \/ Spawn /\ UNCHANGED auxVars
  \/ \E i \in inflight : GoroutineReturns(i) /\ UNCHANGED auxVars
  \/ Receive /\ UNCHANGED auxVars
  \/ SerialStart /\ UNCHANGED auxVars
  \/ SerialReturns /\ UNCHANGED auxVars
  \/ Emit /\ UNCHANGED auxVars
  \/ streamDoneMsg
  \/ \E s \in Summaries : compressDoneMsg(s)
  \/ compressErrMsg

SpecOverlap == InitOverlap /\ [][NextOverlap]_vars

\* the messages appended to the transcript since the running Compress read it
Later == SubSeq(Messages, msgsLen + 1, Len(Messages))

\* C37: a compression started when a turn completes never loses transcript
\* messages of a later turn: when the next message is submitted while Compress
\* is still waiting for its summary, the transcript holds that turn's messages
\* after the compression has finished.
C37_CompressionKeepsLaterMessages ==
  [][(compressing /\ ~compressing') =>
       /\ Len(Messages') >= Len(Later)
       /\ SubSeq(Messages', Len(Messages') - Len(Later) + 1, Len(Messages')) = Later]_vars

\* C37, what the code does: a compression that finishes with no message
\* appended since it started rebuilds the transcript from the system prompt,
\* the summary and the keep zone, and a failed one leaves the transcript alone
C37_QuietCompressionRebuilds ==
  [][(compressing /\ ~compressing' /\ Len(Messages) = msgsLen) =>
       \/ Messages' = Messages
       \/ /\ Len(Messages') = 2 + Len(keepZone)
          /\ SubSeq(Messages', 3, Len(Messages')) = SubSeq(Messages, msgsLen - Len(keepZone) + 1, msgsLen)]_vars

\* C37 witness: a turn requested while Compress awaits its summary has
\* appended its final assistant message, and Compress has not returned
C37_Witness ==
  /\ compressing
  /\ pc = "idle"
  /\ ret = [op |-> "send", err |-> "", did |-> ""]
  /\ Len(Messages) = msgsLen + 2
  /\ Messages[Len(Messages)] = FinalMessage("done")

\* ---- the debug log ----

MaxSecrets == 2

InitLog == Init /\ ContextLimit = 0

\* what the user types in a turn
LogTyped == {"hello", "retry with s3"}

Contains(s, sub) ==
  \E i \in 1..(Len(s) - Len(sub) + 1) : SubSeq(s, i, i + Len(sub) - 1) = sub

\* strings.Index: the place of the first occurrence of sub in s, 0 for none
Index(s, sub) ==
  LET at == { i \in 1..(Len(s) - Len(sub) + 1) : SubSeq(s, i, i + Len(sub) - 1) = sub }
  IN IF at = {} THEN 0 ELSE CHOOSE i \in at : \A j \in at : i <= j

\* strings.ReplaceAll, for a non-empty old
RECURSIVE ReplaceAll(_, _, _)
ReplaceAll(s, old, new) ==
  LET i == Index(s, old) IN
    IF i = 0 THEN s
    ELSE SubSeq(s, 1, i - 1) \o new \o ReplaceAll(SubSeq(s, i + Len(old), Len(s)), old, new)

\* json.Marshal of a string
JSONString(s) == "\"" \o ReplaceAll(s, "\"", "\\\"") \o "\""

RECURSIVE MarshalCalls(_)
MarshalCalls(tcs) ==
  IF Len(tcs) = 0 THEN ""
  ELSE "{\"id\":" \o JSONString(tcs[1].id) \o ",\"type\":\"function\",\"function\":{\"name\":"
       \o JSONString(tcs[1].name) \o ",\"arguments\":" \o JSONString(tcs[1].arguments) \o "}}"
       \o (IF Len(tcs) > 1 THEN "," ELSE "") \o MarshalCalls(Tail(tcs))

\* json.Marshal of a provider.Message: empty fields other than role are omitted
MarshalMessage(m) ==
  "{\"role\":" \o JSONString(m.role)
  \o (IF m.content # "" THEN ",\"content\":" \o JSONString(m.content) ELSE "")
  \o (IF Len(m.tool_calls) > 0 THEN ",\"tool_calls\":[" \o MarshalCalls(m.tool_calls) \o "]" ELSE "")
  \o (IF m.tool_call_id # "" THEN ",\"tool_call_id\":" \o JSONString(m.tool_call_id) ELSE "")
  \o "}"

RECURSIVE MarshalMessages(_)
MarshalMessages(ms) ==
  IF Len(ms) = 0 THEN ""
  ELSE MarshalMessage(ms[1]) \o (IF Len(ms) > 1 THEN "," ELSE "") \o MarshalMessages(Tail(ms))

\* the loop of debugJSON: every value of the mask list is replaced
RECURSIVE Mask(_, _)
Mask(s, svs) ==
  IF Len(svs) = 0 THEN s ELSE Mask(ReplaceAll(s, svs[1], "********"), Tail(svs))

\* debugJSON(label, v): the marshalled value, masked
debugJSON(label, json) == label \o ":\n" \o Mask(json, sensitiveValues)

\* the value the collaborator returned under name, "" when absent
ValueOf(answer, name) ==
  IF \E i \in 1..Len(answer.kv) : answer.kv[i][1] = name
    THEN answer.kv[CHOOSE i \in 1..Len(answer.kv) : answer.kv[i][1] = name][2]
    ELSE ""

\* the values appended to e.sensitiveValues: the non-empty values of the
\* requests flagged sensitive
RECURSIVE SensitiveOf(_, _)
SensitiveOf(reqs, answer) ==
  IF Len(reqs) = 0 THEN << >>
  ELSE (IF reqs[1].sensitive /\ ValueOf(answer, reqs[1].name) # ""
          THEN << ValueOf(answer, reqs[1].name) >> ELSE << >>)
       \o SensitiveOf(Tail(reqs), answer)

\* sensitiveKeys of the round
sensitiveKeys ==
  IF Len(InteractiveRequests(toolCalls)) > 0 /\ onInteractive
    THEN { InteractiveRequests(toolCalls)[k].name :
             k \in { j \in 1..Len(InteractiveRequests(toolCalls)) :
                       InteractiveRequests(toolCalls)[j].sensitive } }
    ELSE {}

\* displayResult of call i: the result of the interactive call, when it parses
\* as a JSON object (the collected values do, what the registry returns does
\* not), with the sensitive keys masked; the raw result of every other call
displayResult(i) ==
  IF i = interactiveToolIndex /\ sensitiveKeys # {} /\ ~interactiveResults.nil
    THEN Marshal([nil |-> FALSE,
                  kv |-> [j \in 1..Len(interactiveResults.kv) |->
                            << interactiveResults.kv[j][1],
                               IF interactiveResults.kv[j][1] \in sensitiveKeys
                                 THEN "********" ELSE interactiveResults.kv[j][2] >>]])
    ELSE results[i].result

\* the step writes these lines with debugLog and leaves the mask list alone
Writes(lines) ==
  /\ debugFile' = lines
  /\ UNCHANGED <<waiting, compressing, msgsLen, sensitiveValues>>

\* the turn with its log lines that carry text of the conversation: USER,
\* REQUEST, ERROR, TOOL_CALL and TOOL_RESULT (the other lines hold counters)
NextLog ==
  \/ \E u \in LogTyped : SendWithInteractive(u, TRUE, "relay") /\ Writes(<< "USER: " \o u >>)
  \/ RoundTop /\ Writes(IF pc' = "stream"
                          THEN << debugJSON("REQUEST", "{\"messages\":[" \o MarshalMessages(Messages) \o "]}") >>
                          ELSE << >>)
  \/ \E e \in StreamErrors : ChatStreamFails(e) /\ Writes(<< "ERROR: " \o e >>)
  \/ \E t \in Texts : ChatStreamText(t) /\ Writes(<< >>)
  \/ \E b \in {AskBatch, RelayBatch} : ChatStreamCalls("", b) /\ Writes(<< >>)
  \/ InteractiveFails /\ Writes(<< >>)
  \/ \E a \in InteractiveAnswers(InteractiveRequests(toolCalls)) :
       /\ InteractiveReturns(a)
       /\ Len(sensitiveValues) + Len(SensitiveOf(InteractiveRequests(toolCalls), a)) <= MaxSecrets
       /\ sensitiveValues' = sensitiveValues \o SensitiveOf(InteractiveRequests(toolCalls), a)
       /\ debugFile' = << >>
       /\ UNCHANGED <<waiting, compressing, msgsLen>>
  \/ SerialStart /\ Writes(<< "TOOL_CALL: " \o toolCalls[next].name
                              \o " args=" \o toolCalls[next].arguments >>)
  \/ SerialReturns /\ Writes(<< >>)
  \/ Emit /\ Writes([i \in 1..Len(toolCalls) |->
                       "TOOL_RESULT: " \o toolCalls[i].name \o " " \o displayResult(i)])

SpecLog == InitLog /\ [][NextLog]_vars

\* a line of the last step holds a value of the mask list
Leaked ==
  \E k \in 1..Len(debugFile), j \in 1..Len(sensitiveValues) :
    Contains(debugFile[k], sensitiveValues[j])

\* C34: once a value has been collected for a field flagged sensitive, no
\* log emission made afterwards by the engine (request dumps, USER lines,
\* TOOL_CALL argument lines, TOOL_RESULT lines of any later tool) contains
\* that value, while the tool message stored in the transcript keeps it raw.
C34_NoSensitiveValueLogged == ~Leaked

\* the round's interactive call was answered with a sensitive value and its
\* tool message has just been appended
AnsweredAndAppended ==
  /\ pc = "top"
  /\ Len(toolCalls) > 0
  /\ interactiveToolIndex # 0
  /\ ~interactiveResults.nil
  /\ sensitiveKeys # {}

\* C34, what the code does: request dumps and the TOOL_RESULT line of the
\* answered interactive call hold no value of the mask list, and the tool
\* message of that call holds the collected values as they were entered
C34_DumpsMaskedTranscriptRaw ==
  /\ \A k \in 1..Len(debugFile), j \in 1..Len(sensitiveValues) :
       (SubSeq(debugFile[k], 1, 7) = "REQUEST" => ~Contains(debugFile[k], sensitiveValues[j]))
  /\ AnsweredAndAppended =>
       /\ \A j \in 1..Len(sensitiveValues) :
            ~Contains(debugFile[interactiveToolIndex], sensitiveValues[j])
       /\ Messages[Len(Messages) - Len(toolCalls) + interactiveToolIndex].content
            = Marshal(interactiveResults)
       /\ \E j \in 1..Len(sensitiveValues) :
            Contains(Messages[Len(Messages) - Len(toolCalls) + interactiveToolIndex].content,
                     sensitiveValues[j])

\* C34 witness: after the password was collected, the TOOL_CALL line of a
\* later tool call was written with the password in its arguments
C34_Witness ==
  /\ Len(sensitiveValues) > 0
  /\ Len(debugFile) = 1
  /\ SubSeq(debugFile[1], 1, 9) = "TOOL_CALL"
  /\ Contains(debugFile[1], sensitiveValues[1])

\* C34 witness, masked: a request dump was written whose transcript holds the
\* collected password
C34_WitnessMaskedDump ==
  /\ Len(sensitiveValues) > 0
  /\ Len(debugFile) = 1
  /\ SubSeq(debugFile[1], 1, 7) = "REQUEST"
  /\ Contains(debugFile[1], "********")
  /\ \E i \in 1..Len(Messages) : Contains(Messages[i].content, sensitiveValues[1])

\* ---- a resumed session ----

\* a transcript a session file can hold: what the engine had appended when
\* the program was left, possibly in the middle of a turn. The results of an
\* assistant message's calls follow it in emission order, and nothing else
\* follows it before they are all there.
Saved(t) ==
  /\ \A a \in 1..Len(t) : \A k \in 1..Len(t[a].tool_calls) :
       a + k <= Len(t) =>
         t[a + k].role = "tool" /\ t[a + k].tool_call_id = t[a].tool_calls[k].id
  /\ \A i \in 1..Len(t) : t[i].role = "tool" =>
       \E a \in 1..(i - 1) : t[a].role = "assistant" /\ i - a <= Len(t[a].tool_calls)

Sessions == { t \in Transcripts : Len(t) <= MaxMsgs /\ Saved(t) }

\* eng.Messages = sess.Messages
InitResume ==
  /\ Messages \in Sessions
  /\ NoTurnYet
  /\ ContextLimit = 0
  /\ NoStream
  /\ NoRequest
  /\ Populated

\* the first turn after the resume: one round, which answers with text or fails
NextResume ==
  \/ \E u \in UserMsgs, h \in BOOLEAN : SendWithInteractive(u, h, "varied") /\ UNCHANGED auxVars
  \/ RoundTop /\ UNCHANGED auxVars
  \/ \E e \in StreamErrors : ChatStreamFails(e) /\ UNCHANGED auxVars
  \/ \E t \in Texts : ChatStreamText(t) /\ UNCHANGED auxVars

SpecResume == InitResume /\ [][NextResume]_vars

\* the assistant message with tool calls that opens the trailing group of ms:
\* every message after it is a tool message; 0 when ms does not end so
GroupStart(ms) ==
  LET opens == { a \in 1..Len(ms) :
                   /\ ms[a].role = "assistant"
                   /\ Len(ms[a].tool_calls) > 0
                   /\ \A j \in (a + 1)..Len(ms) : ms[j].role = "tool" }
  IN IF opens = {} THEN 0 ELSE CHOOSE a \in opens : TRUE

\* every call of ms[a] is followed by a tool result with its id
CompleteGroup(ms, a) ==
  \A k \in 1..Len(ms[a].tool_calls) :
    \E j \in (a + 1)..Len(ms) : ms[j].tool_call_id = ms[a].tool_calls[k].id

\* the turn has just been requested: pre is the transcript it was handed,
\* the first snapshot messages are what cleanIncompleteToolCalls left
Requested == pc = "top" /\ round = 0

C36_TextualTailKept ==
  Requested =>
    LET a == GroupStart(pre)
        cleaned == SubSeq(Messages, 1, snapshot) IN
      /\ a = 0 => cleaned = pre
      /\ a # 0 => /\ Len(cleaned) < a
                  /\ cleaned = SubSeq(pre, 1, Len(cleaned))

C32_CancelledRoundSkipsAdapter ==
  [][(pc = "top" /\ cancelled /\ ~ExceedsCap(round + 1)) =>
       /\ adapterCalls' = adapterCalls
       /\ pc' = "idle"
       /\ ret' = [op |-> "send", err |-> "context canceled", did |-> ""]
       /\ Messages' = SubSeq(Messages, 1, snapshot)
       /\ Messages' = cleanIncompleteToolCalls(pre)]_vars

\* C32 witness: the turn was cancelled during its first round of tool calls
\* and ended at the top of the second round, after one adapter call
C32_Witness ==
  /\ pc = "idle"
  /\ ret = [op |-> "send", err |-> "context canceled", did |-> ""]
  /\ round = 2
  /\ adapterCalls = 1
  /\ Messages = pre

\* C32 witness, first round: the context was cancelled before the first
\* round began and the adapter was never invoked
C32_WitnessFirstRound ==
  /\ pc = "idle"
  /\ ret = [op |-> "send", err |-> "context canceled", did |-> ""]
  /\ round = 1
  /\ adapterCalls = 0

\* C33: cancellation is checked before tool execution: when the context is
\* cancelled after the adapter returned tool calls and before the first tool
\* of the round has started, no tool of that round is executed.
C33_NoToolAfterCancel ==
  [][(cancelled /\ pc \in {"ask", "serial", "spawn"} /\ done = {} /\ inflight = {}) =>
       (inflight' = {} /\ done' = {})]_vars

\* C33, what the engine does: a round whose tools ran under a cancelled
\* context still ends the turn with the cancellation error, at the top of
\* the next round
C33_CancelledTurnEndsAtNextTop ==
  [][(cancelled /\ pc = "emit" /\ ~ExceedsCap(round + 1)) => (pc' = "top" /\ cancelled')]_vars

\* ---- auxiliary operations ----

\* C35: switching the active model leaves the transcript unchanged, and Clear
\* leaves the transcript equal to exactly one message, the original system
\* message, whatever it held before (a compression summary included).
C35_SwitchAndClearFrame ==
  /\ ret.op = "switch" => Messages = pre
  /\ ret.op = "clear" =>
       /\ Len(Messages) = 1
       /\ Messages[1] = pre[1]
       /\ Messages[1] = Msg("system", SystemPrompt, << >>, "")

\* C35 witness: Clear on a compressed transcript, which started with the
\* system prompt and the summary
C35_Witness ==
  /\ ret.op = "clear"
  /\ Len(pre) >= 3
  /\ pre[2].role = "system"
  /\ Len(Messages) = 1

\* C35 witness, switch: the model was switched on a transcript holding an exchange
C35_WitnessSwitch ==
  /\ ret.op = "switch"
  /\ CurrentModel = "claude"
  /\ Len(Messages) >= 3

\* ---- order of the flushed tool calls ----

\* the accumulated calls in ascending vendor index order
RECURSIVE ByIndex(_)
ByIndex(acc) ==
  IF acc = {} THEN << >>
  ELSE LET m == CHOOSE e \in acc : \A o \in acc : e.index <= o.index
       IN <<ToolCall(m.id, m.name, m.arguments)>> \o ByIndex(acc \ {m})

\* Protocol A has read [DONE] and delivered its Done delta
FlushedAtDone ==
  /\ proto = "A"
  /\ sret = "nil"
  /\ Len(deltas) > 0
  /\ deltas[Len(deltas)].done

\* C39: at [DONE] the Protocol A adapter delivers the accumulated tool calls
\* in ascending vendor index order, so the order of tool_calls is the same on
\* every run of a given stream.
C39_FlushedInIndexOrder ==
  FlushedAtDone => deltas[Len(deltas)].tool_calls = ByIndex(tcAcc)

\* C39, what the code does: the Done delta carries exactly the accumulated
\* calls, each once, in some order
C39_FlushedAllOnce ==
  FlushedAtDone =>
    LET tcs == deltas[Len(deltas)].tool_calls IN
      /\ Len(tcs) = Cardinality(tcAcc)
      /\ { tcs[k] : k \in 1..Len(tcs) } = { ToolCall(e.id, e.name, e.arguments) : e \in tcAcc }

\* C39 witness: two calls were accumulated and flushed with the higher index first
C39_Witness ==
  /\ FlushedAtDone
  /\ Cardinality(tcAcc) = 2
  /\ deltas[Len(deltas)].tool_calls # ByIndex(tcAcc)

\* ---- termination ----

\* SendWithInteractive has been called and has not returned
TurnRunning == pc \notin {"idle", "summarize"}

====
